---- MODULE Spec2Model ----
(***************************************************************************)
(* Model of the boba MySQL terminal client.                                *)
(*                                                                         *)
(* The menu-driven Bubble Tea session (src/unnamed/part_001) is modelled   *)
(* as the state machine the Bubble Tea runtime drives: one call of         *)
(* model.Update per key event or per message delivered by a finished       *)
(* command.  The variable m is the model struct, cmd is the command the    *)
(* last Update call returned, inflight holds the commands whose goroutine  *)
(* has not delivered its message yet.                                      *)
(*                                                                         *)
(* Library components (bubbles list, textinput) are represented by what    *)
(* the source reads from them: a text input by its Value(), a list by its  *)
(* items and by the item SelectedItem() returns when Enter is pressed.     *)
(* Commands returned by a library component are kept as the opaque        *)
(* command "lib" and are not interpreted.                                  *)
(***************************************************************************)
EXTENDS Integers, Sequences, FiniteSets, Bags, TLC

VARIABLES m, cmd, inflight, quit, opened, scroll, shell, render, race

\* The variables of the Bubble Tea session; scroll is the state of the shell
\* script's "Scroll Through Results" loop (src/unnamed/part_000), shell the
\* state of the interactive shell of the command line client (src/main.go),
\* render a call of one of the functions that classify a query, normalize a
\* value or render a result, with what it was given and what it produced,
\* race the count of the queries submitted at the query input and the latest
\* of them that has delivered a result (kept where the order of submission
\* is followed).
tuiVars == <<m, cmd, inflight, quit, opened>>

vars == <<m, cmd, inflight, quit, opened, scroll, shell, render, race>>

\* ------------------------------------------------------------------ bounds
\* Longest text typed into the query input.
MaxInput == 1
\* Longest text typed into a connection form field.
MaxField == 1
\* Longest query history kept.
MaxHist == 1
\* Most commands running at the same time.
MaxInflight == 2
\* Most database handles sql.Open hands out in one run.
MaxHandles == 1

\* Characters typed into the query input, and into the connection form.
Runes == {"a", " "}
FormRunes == {"a"}
Digits == {"0", "1", "2", "3", "4", "5", "6", "7", "8", "9"}
\* Tables the database may hold, as SHOW TABLES lists them.
TableLists == {<< >>, <<"t1">>}
\* Rowsets the database may answer a read with.
Rowsets == {[cols |-> <<"c">>, rows |-> << >>], [cols |-> <<"c">>, rows |-> << <<"v">> >>]}

\* ------------------------------------------------------------------ commands
None == [kind |-> "none"]
\* The command a library component returns from its Update; of names the component.
Lib(of) == [kind |-> "lib", of |-> of]
Quit == [kind |-> "quit"]
AsyncKinds == {"connect", "execQuery", "showTables", "showTableSelection", "handleTableSelection"}

\* ------------------------------------------------------------------ text
\* strings.TrimSpace on a sequence of characters
RECURSIVE TrimLeft(_)
TrimLeft(s) == IF s # << >> /\ Head(s) = " " THEN TrimLeft(Tail(s)) ELSE s

RECURSIVE TrimRight(_)
TrimRight(s) ==
  IF s # << >> /\ s[Len(s)] = " " THEN TrimRight(SubSeq(s, 1, Len(s) - 1)) ELSE s

TrimSpace(s) == TrimRight(TrimLeft(s))

\* textinput.Model.Update for one key: a rune is appended, backspace deletes
\* the last character, every other key leaves the value alone.
TextInputUpdate(v, k) ==
  IF k \in Runes THEN Append(v, k)
  ELSE IF k = "backspace" /\ v # << >> THEN SubSeq(v, 1, Len(v) - 1)
  ELSE v

\* ------------------------------------------------------------------ connection form
Fields == 0 .. 4

AllDigits(s) == \A i \in 1 .. Len(s) : s[i] \in Digits

\* inputs[i].Validate of newConnectionForm: TRUE when the validator returns nil.
Validate(i, s) ==
  CASE i = 0 -> s = << >> \/ Len(s) <= 50
    [] i = 1 -> s = << >> \/ AllDigits(s)
    [] i = 2 -> s # << >> /\ Len(s) <= 50
    [] i = 3 -> s # << >>
    [] OTHER -> s # << >> /\ Len(s) <= 50

newConnectionForm ==
  [inputs |-> [i \in Fields |-> << >>],
   focus |-> 0,
   err |-> FALSE,
   status |-> "enter details",
   connecting |-> FALSE,
   validated |-> [i \in Fields |-> FALSE],
   submitted |-> FALSE]

\* ConnectionForm.connect: the command captures the form.
connect(cf) == [kind |-> "connect"]

\* ConnectionForm.Update, case "tab", "shift+tab", "up", "down"
FormFocus(cf, k) ==
  LET f0 == IF k \in {"up", "shift+tab"} THEN cf.focus - 1 ELSE cf.focus + 1
      f == IF f0 >= 5 THEN 0 ELSE IF f0 < 0 THEN 4 ELSE f0
  IN [cf |-> [cf EXCEPT !.focus = f,
                        !.validated[f] = Validate(f, cf.inputs[f])],
      cmd |-> Lib("form")]

\* ConnectionForm.Update, case "enter"
FormEnter(cf) ==
  LET validated == [i \in Fields |-> Validate(i, cf.inputs[i])]
      allValid == \A i \in Fields : validated[i]
  IN IF ~allValid
     THEN [cf |-> [cf EXCEPT !.validated = validated, !.status = "fix validation errors"],
           cmd |-> None]
     ELSE [cf |-> [cf EXCEPT !.validated = validated,
                             !.connecting = TRUE,
                             !.submitted = TRUE,
                             !.status = "connecting"],
           cmd |-> connect(cf)]

\* ConnectionForm.Update, the focused input takes every other key
FormType(cf, k) ==
  LET v == TextInputUpdate(cf.inputs[cf.focus], k)
  IN [cf |-> [cf EXCEPT !.inputs[cf.focus] = v,
                        !.validated[cf.focus] = Validate(cf.focus, v)],
      cmd |-> Lib("form")]

\* ConnectionForm.Update for a key message
ConnectionFormUpdate(cf, k) ==
  CASE k \in {"tab", "shift+tab", "up", "down"} -> FormFocus(cf, k)
    [] k = "enter" -> FormEnter(cf)
    [] k = "ctrl+c" -> [cf |-> cf, cmd |-> Quit]
    [] OTHER -> FormType(cf, k)

\* ------------------------------------------------------------------ the model struct
\* The items of the lists: menuItem, copyItem, tableItem and historyItem
\* records, NoItem is the nil a list without items answers SelectedItem() with.
MainMenuItems ==
  {[title |-> t] : t \in {"View Tables", "Run Custom Query", "Show Table Data",
                          "Copy Table Structure", "Scroll Through Results", "Exit"}}

CopyItems ==
  {[title |-> t] : t \in {"Copy as CSV", "Copy as Table", "Copy as JSON",
                          "Export to File", "Copy Statistics"}}

NoItem == [nil |-> TRUE]

initialModel ==
  [db |-> 0,
   input |-> << >>,
   table |-> [cols |-> << >>, rows |-> << >>],
   err |-> FALSE,
   status |-> <<"welcome", 0>>,
   showHelp |-> FALSE,
   showHistory |-> FALSE,
   queryHistory |-> << >>,
   currentQuery |-> 0,
   historyList |-> << >>,
   showConnectionForm |-> TRUE,
   connectionForm |-> newConnectionForm,
   loading |-> FALSE,
   showCopyMenu |-> FALSE,
   lastQueryResult |-> << >>,
   lastQueryCols |-> << >>,
   showStats |-> FALSE,
   queryStats |-> [rowCount |-> 0, columnCount |-> 0],
   showTableInfo |-> FALSE,
   tableInfo |-> [totalRows |-> 0, totalColumns |-> 0, hasData |-> FALSE],
   showMainMenu |-> FALSE,
   selectedTable |-> "",
   currentPage |-> 0,
   rowsPerPage |-> 20,
   totalRows |-> 0,
   browsingTable |-> FALSE,
   tableData |-> << >>,
   tableColumns |-> << >>,
   showTableList |-> FALSE,
   tableList |-> << >>]

\* The seven view flags of the model struct.
ViewFlags ==
  {"showConnectionForm", "showMainMenu", "showTableList", "showHelp", "showHistory",
   "showCopyMenu", "browsingTable"}

\* The condition of the last if of model.Update: no flag is set, the query
\* input is the view that takes the message.
InputActive(mm) ==
  /\ ~mm.showHelp /\ ~mm.showHistory /\ ~mm.showConnectionForm /\ ~mm.showCopyMenu
  /\ ~mm.showMainMenu /\ ~mm.browsingTable /\ ~mm.showTableList

\* The view model.View renders, by the order of its tests.
View(mm) ==
  IF mm.showConnectionForm THEN "Connecting"
  ELSE IF mm.showMainMenu THEN "MainMenu"
  ELSE IF mm.showTableList THEN "TableList"
  ELSE IF mm.showHelp THEN "HelpView"
  ELSE IF mm.showHistory THEN "HistoryView"
  ELSE IF mm.showCopyMenu THEN "CopyExportMenu"
  ELSE IF mm.browsingTable THEN "TableBrowse"
  ELSE "FreeQuery"

\* The view whose handler model.Update gives a key to, by the order of its tests.
KeyView(mm) ==
  IF mm.showConnectionForm THEN "Connecting"
  ELSE IF mm.showMainMenu THEN "MainMenu"
  ELSE IF mm.showHelp THEN "HelpView"
  ELSE IF mm.showHistory THEN "HistoryView"
  ELSE IF mm.showCopyMenu THEN "CopyExportMenu"
  ELSE IF mm.showTableList THEN "TableList"
  ELSE IF mm.browsingTable THEN "TableBrowse"
  ELSE "FreeQuery"

\* model.Update, its tail: the query input takes the message when no flag is set.
InputUpdate(mm, k) ==
  IF InputActive(mm)
  THEN [m |-> [mm EXCEPT !.input = TextInputUpdate(mm.input, k)], cmd |-> Lib("input")]
  ELSE [m |-> mm, cmd |-> None]

\* ------------------------------------------------------------------ commands of the model
execQueryCmd(mm, query) == [kind |-> "execQuery", db |-> mm.db, query |-> query]
showTables(mm) == [kind |-> "showTables", db |-> mm.db]
showTableSelection(mm) == [kind |-> "showTableSelection", db |-> mm.db]
showTableStructureSelection(mm) == [kind |-> "showTableSelection", db |-> mm.db]
showTablePaginationSelection(mm) == [kind |-> "showTableSelection", db |-> mm.db]
handleTableSelection(mm, tableName) ==
  [kind |-> "handleTableSelection", db |-> mm.db, table |-> tableName]

\* model.handleMainMenuAction has a value receiver: m is the callee's copy of
\* the model, cmd the command it returns.
handleMainMenuAction(mm, action) ==
  CASE action = "View Tables" -> [m |-> mm, cmd |-> showTables(mm)]
    [] action = "Run Custom Query" -> [m |-> [mm EXCEPT !.showMainMenu = FALSE], cmd |-> Lib("input")]
    [] action = "Show Table Data" -> [m |-> mm, cmd |-> showTableSelection(mm)]
    [] action = "Copy Table Structure" -> [m |-> mm, cmd |-> showTableStructureSelection(mm)]
    [] action = "Scroll Through Results" -> [m |-> mm, cmd |-> showTablePaginationSelection(mm)]
    [] action = "Exit" -> [m |-> mm, cmd |-> Quit]
    [] OTHER -> [m |-> mm, cmd |-> None]

\* copyAsCSV, copyAsTable, copyAsJSON, exportToFile: value receivers, the
\* callee's copy of the model with the status they write.
copyRows(mm, done) ==
  IF Len(mm.lastQueryResult) = 0
  THEN [mm EXCEPT !.status = <<"no data", 0>>]
  ELSE [mm EXCEPT !.status = <<done, Len(mm.lastQueryResult)>>]

\* exportToFile: os.Create may fail.
exportToFile(mm, created) ==
  IF Len(mm.lastQueryResult) = 0 THEN [mm EXCEPT !.status = <<"no data", 0>>]
  ELSE IF ~created THEN [mm EXCEPT !.status = <<"create failed", 0>>]
  ELSE [mm EXCEPT !.status = <<"exported", Len(mm.lastQueryResult)>>]

copyStatistics(mm) ==
  IF mm.queryStats.rowCount = 0
  THEN [mm EXCEPT !.status = <<"no statistics", 0>>]
  ELSE [mm EXCEPT !.status = <<"statistics ready", mm.queryStats.rowCount>>]

\* model.handleCopyAction has a value receiver: the result is the callee's copy.
handleCopyAction(mm, action, created) ==
  CASE action = "Copy as CSV" -> copyRows(mm, "csv ready")
    [] action = "Copy as Table" -> copyRows(mm, "table ready")
    [] action = "Copy as JSON" -> copyRows(mm, "json ready")
    [] action = "Export to File" -> exportToFile(mm, created)
    [] action = "Copy Statistics" -> copyStatistics(mm)
    [] OTHER -> mm

\* ------------------------------------------------------------------ model.Update, key messages
\* sel is what SelectedItem() of the list on screen returns, NoItem for nil.

\* if m.showMainMenu
UpdateMainMenu(mm, k, sel) ==
  IF k = "enter" /\ sel # NoItem
  THEN [m |-> mm, cmd |-> handleMainMenuAction(mm, sel.title).cmd]
  ELSE IF k = "esc"
  THEN [m |-> [mm EXCEPT !.showMainMenu = FALSE], cmd |-> Lib("mainMenu")]
  ELSE [m |-> mm, cmd |-> Lib("mainMenu")]

\* if m.showHelp
UpdateHelp(mm, k) ==
  IF k = "esc"
  THEN [m |-> [mm EXCEPT !.showHelp = FALSE, !.showMainMenu = TRUE], cmd |-> None]
  ELSE [m |-> mm, cmd |-> None]

\* An UpdateHistory whose Enter copies the entry but leaves the history on
\* screen, unlike the source's.
UpdateHistoryStaysOpen(mm, k, sel) ==
  IF k = "esc"
  THEN [m |-> [mm EXCEPT !.showHistory = FALSE, !.showMainMenu = TRUE], cmd |-> Lib("historyList")]
  ELSE IF k = "enter" /\ sel # NoItem
  THEN [m |-> [mm EXCEPT !.input = sel.query], cmd |-> Lib("historyList")]
  ELSE [m |-> mm, cmd |-> Lib("historyList")]

\* if m.showHistory
UpdateHistory(mm, k, sel) ==
  IF k = "esc"
  THEN [m |-> [mm EXCEPT !.showHistory = FALSE, !.showMainMenu = TRUE], cmd |-> Lib("historyList")]
  ELSE IF k = "enter" /\ sel # NoItem
  THEN [m |-> [mm EXCEPT !.input = sel.query, !.showHistory = FALSE], cmd |-> Lib("historyList")]
  ELSE [m |-> mm, cmd |-> Lib("historyList")]

\* An UpdateCopyMenu whose Enter runs the last query again, unlike the source's.
UpdateCopyMenuRequeries(mm, k, sel, created) ==
  IF k = "esc"
  THEN [m |-> [mm EXCEPT !.showCopyMenu = FALSE, !.showMainMenu = TRUE], cmd |-> Lib("copyMenu")]
  ELSE IF k = "enter" /\ sel # NoItem
  THEN [m |-> [mm EXCEPT !.showCopyMenu = FALSE, !.showMainMenu = TRUE],
        cmd |-> execQueryCmd(mm, mm.input)]
  ELSE [m |-> mm, cmd |-> Lib("copyMenu")]

\* if m.showCopyMenu: handleCopyAction works on its own copy of the model,
\* which Update never reads back; created is the outcome of os.Create.
UpdateCopyMenu(mm, k, sel, created) ==
  IF k = "esc"
  THEN [m |-> [mm EXCEPT !.showCopyMenu = FALSE, !.showMainMenu = TRUE], cmd |-> Lib("copyMenu")]
  ELSE IF k = "enter" /\ sel # NoItem
  THEN LET copy == handleCopyAction(mm, sel.title, created)
       IN [m |-> [mm EXCEPT !.showCopyMenu = FALSE, !.showMainMenu = TRUE], cmd |-> Lib("copyMenu")]
  ELSE [m |-> mm, cmd |-> Lib("copyMenu")]

\* if m.showTableList
UpdateTableList(mm, k, sel) ==
  IF k = "esc"
  THEN [m |-> [mm EXCEPT !.showTableList = FALSE, !.showMainMenu = TRUE], cmd |-> Lib("tableList")]
  ELSE IF k = "enter" /\ sel # NoItem
  THEN LET m1 == [mm EXCEPT !.selectedTable = sel.name, !.showTableList = FALSE]
       IN [m |-> m1, cmd |-> handleTableSelection(m1, sel.name)]
  ELSE [m |-> mm, cmd |-> Lib("tableList")]

\* if m.browsingTable
UpdateBrowsing(mm, k) ==
  CASE k = "esc" ->
         [m |-> [mm EXCEPT !.browsingTable = FALSE, !.showMainMenu = TRUE], cmd |-> None]
    [] k \in {"left", "h"} ->
         [m |-> IF mm.currentPage > 0
                THEN [mm EXCEPT !.currentPage = mm.currentPage - 1] ELSE mm,
          cmd |-> None]
    [] k \in {"right", "l"} ->
         LET maxPage == (mm.totalRows - 1) \div mm.rowsPerPage
         IN [m |-> IF mm.currentPage < maxPage
                   THEN [mm EXCEPT !.currentPage = mm.currentPage + 1] ELSE mm,
             cmd |-> None]
    [] OTHER -> [m |-> mm, cmd |-> None]

\* The items Update hands to historyList.SetItems.
RECURSIVE historyItems(_)
historyItems(h) ==
  IF h = << >> THEN << >>
  ELSE Append(historyItems(SubSeq(h, 1, Len(h) - 1)), [query |-> h[Len(h)], index |-> Len(h)])

\* case "enter" of the last switch: the query is recorded and started
QueryEnter(mm) ==
  LET query == TrimSpace(mm.input)
      h == IF Len(mm.queryHistory) = 0 \/ mm.queryHistory[Len(mm.queryHistory)] # query
           THEN Append(mm.queryHistory, query) ELSE mm.queryHistory
      m1 == [mm EXCEPT !.queryHistory = h,
                       !.historyList = historyItems(h),
                       !.loading = TRUE,
                       !.status = <<"executing", 0>>]
  IN IF query # << >>
     THEN [m |-> m1, cmd |-> execQueryCmd(m1, query)]
     ELSE InputUpdate(mm, "enter")

\* A case "up" that stops at the first entry instead of going round to the
\* last, unlike HistoryUp.
HistoryUpStops(mm) ==
  IF Len(mm.queryHistory) > 0
  THEN LET c == IF mm.currentQuery > 0 THEN mm.currentQuery - 1 ELSE 0
       IN [mm EXCEPT !.currentQuery = c, !.input = mm.queryHistory[c + 1]]
  ELSE mm

\* case "up" and case "down" of the last switch
HistoryUp(mm) ==
  IF Len(mm.queryHistory) > 0
  THEN LET c == IF mm.currentQuery > 0 THEN mm.currentQuery - 1
                ELSE Len(mm.queryHistory) - 1
       IN [mm EXCEPT !.currentQuery = c, !.input = mm.queryHistory[c + 1]]
  ELSE mm

HistoryDown(mm) ==
  IF Len(mm.queryHistory) > 0
  THEN LET c == IF mm.currentQuery < Len(mm.queryHistory) - 1 THEN mm.currentQuery + 1
                ELSE 0
       IN [mm EXCEPT !.currentQuery = c, !.input = mm.queryHistory[c + 1]]
  ELSE mm

\* A case "esc" that leaves the typed text in the input, unlike QueryEsc.
QueryEscKeepsInput(mm) == InputUpdate(mm, "esc")

\* case "esc" of the last switch: the input is cleared
QueryEsc(mm) == InputUpdate([mm EXCEPT !.input = << >>], "esc")

\* A case "ctrl+d" that opens the copy menu whatever the cache holds, unlike
\* QueryCopyMenu.
QueryCopyMenuAlways(mm) == InputUpdate([mm EXCEPT !.showCopyMenu = TRUE], "ctrl+d")

\* case "ctrl+d" of the last switch
QueryCopyMenu(mm) ==
  InputUpdate(IF Len(mm.lastQueryResult) > 0
              THEN [mm EXCEPT !.showCopyMenu = TRUE]
              ELSE [mm EXCEPT !.status = <<"no data to copy", 0>>], "ctrl+d")

\* the last switch of case tea.KeyMsg, reached when no view flag is set
UpdateQueryInput(mm, k) ==
  CASE k = "enter" -> QueryEnter(mm)
    [] k = "ctrl+c" -> [m |-> mm, cmd |-> Quit]
    [] k = "esc" -> QueryEsc(mm)
    [] k = "?" -> InputUpdate([mm EXCEPT !.showHelp = TRUE], k)
    [] k = "ctrl+h" -> InputUpdate([mm EXCEPT !.showHistory = TRUE], k)
    [] k = "ctrl+d" -> QueryCopyMenu(mm)
    [] k = "ctrl+s" ->
         InputUpdate(IF mm.queryStats.rowCount > 0
                     THEN [mm EXCEPT !.showStats = ~mm.showStats]
                     ELSE [mm EXCEPT !.status = <<"no statistics available", 0>>], k)
    [] k = "ctrl+i" ->
         InputUpdate(IF Len(mm.lastQueryResult) > 0
                     THEN [mm EXCEPT !.showTableInfo = ~mm.showTableInfo]
                     ELSE [mm EXCEPT !.status = <<"no table information", 0>>], k)
    [] k = "up" -> InputUpdate(HistoryUp(mm), k)
    [] k = "down" -> InputUpdate(HistoryDown(mm), k)
    [] OTHER -> InputUpdate(mm, k)

\* model.Update, case tea.KeyMsg
UpdateKeyMsg(mm, k, sel, created) ==
  IF mm.showConnectionForm
  THEN LET r == ConnectionFormUpdate(mm.connectionForm, k)
       IN [m |-> [mm EXCEPT !.connectionForm = r.cf], cmd |-> r.cmd]
  ELSE IF mm.showMainMenu THEN UpdateMainMenu(mm, k, sel)
  ELSE IF mm.showHelp THEN UpdateHelp(mm, k)
  ELSE IF mm.showHistory THEN UpdateHistory(mm, k, sel)
  ELSE IF mm.showCopyMenu THEN UpdateCopyMenu(mm, k, sel, created)
  ELSE IF mm.showTableList THEN UpdateTableList(mm, k, sel)
  ELSE IF mm.browsingTable THEN UpdateBrowsing(mm, k)
  ELSE UpdateQueryInput(mm, k)

\* ------------------------------------------------------------------ model.Update, command results
\* An UpdateConnectionFormMsg that stores the handle of a successful attempt
\* but keeps the connection form on screen, unlike the source's.
UpdateConnectionFormMsgKeepsForm(mm, msg) ==
  IF msg.err
  THEN [mm EXCEPT !.connectionForm.err = TRUE,
                  !.connectionForm.connecting = FALSE,
                  !.connectionForm.status = "connection failed"]
  ELSE [mm EXCEPT !.db = msg.db, !.status = <<"connected", 0>>]

\* An UpdateConnectionFormMsg that shows the main menu after a successful
\* attempt but does not store the handle, unlike the source's.
UpdateConnectionFormMsgDropsHandle(mm, msg) ==
  IF msg.err
  THEN [mm EXCEPT !.connectionForm.err = TRUE,
                  !.connectionForm.connecting = FALSE,
                  !.connectionForm.status = "connection failed"]
  ELSE [mm EXCEPT !.showConnectionForm = FALSE,
                  !.showMainMenu = TRUE,
                  !.status = <<"connected", 0>>]

\* case ConnectionFormMsg
UpdateConnectionFormMsg(mm, msg) ==
  IF msg.err
  THEN [mm EXCEPT !.connectionForm.err = TRUE,
                  !.connectionForm.connecting = FALSE,
                  !.connectionForm.status = "connection failed"]
  ELSE [mm EXCEPT !.db = msg.db,
                  !.showConnectionForm = FALSE,
                  !.showMainMenu = TRUE,
                  !.status = <<"connected", 0>>]

\* An UpdateQueryResultMsg that empties the query input when the query
\* failed, unlike the source's.
UpdateQueryResultMsgClearsInput(mm, msg) ==
  IF msg.err
  THEN [mm EXCEPT !.loading = FALSE, !.err = TRUE, !.status = <<"query failed", 0>>,
                  !.input = << >>]
  ELSE [mm EXCEPT !.loading = FALSE,
                  !.err = FALSE,
                  !.lastQueryResult = msg.rows,
                  !.lastQueryCols = msg.cols,
                  !.queryStats = [rowCount |-> Len(msg.rows), columnCount |-> Len(msg.cols)],
                  !.tableInfo = [totalRows |-> Len(msg.rows),
                                 totalColumns |-> Len(msg.cols),
                                 hasData |-> Len(msg.rows) > 0],
                  !.table = [cols |-> msg.cols, rows |-> msg.rows],
                  !.status = <<"executed", Len(msg.rows)>>]

\* An UpdateQueryResultMsg that forgets the statistics of the cached result
\* when the query failed, unlike the source's.
UpdateQueryResultMsgResetsStats(mm, msg) ==
  IF msg.err
  THEN [mm EXCEPT !.loading = FALSE, !.err = TRUE, !.status = <<"query failed", 0>>,
                  !.queryStats = [rowCount |-> 0, columnCount |-> 0]]
  ELSE [mm EXCEPT !.loading = FALSE,
                  !.err = FALSE,
                  !.lastQueryResult = msg.rows,
                  !.lastQueryCols = msg.cols,
                  !.queryStats = [rowCount |-> Len(msg.rows), columnCount |-> Len(msg.cols)],
                  !.tableInfo = [totalRows |-> Len(msg.rows),
                                 totalColumns |-> Len(msg.cols),
                                 hasData |-> Len(msg.rows) > 0],
                  !.table = [cols |-> msg.cols, rows |-> msg.rows],
                  !.status = <<"executed", Len(msg.rows)>>]

\* case queryResultMsg
UpdateQueryResultMsg(mm, msg) ==
  IF msg.err
  THEN [mm EXCEPT !.loading = FALSE, !.err = TRUE, !.status = <<"query failed", 0>>]
  ELSE [mm EXCEPT !.loading = FALSE,
                  !.err = FALSE,
                  !.lastQueryResult = msg.rows,
                  !.lastQueryCols = msg.cols,
                  !.queryStats = [rowCount |-> Len(msg.rows), columnCount |-> Len(msg.cols)],
                  !.tableInfo = [totalRows |-> Len(msg.rows),
                                 totalColumns |-> Len(msg.cols),
                                 hasData |-> Len(msg.rows) > 0],
                  !.table = [cols |-> msg.cols, rows |-> msg.rows],
                  !.status = <<"executed", Len(msg.rows)>>]

\* case tableSelectionMsg
UpdateTableSelectionMsg(mm, msg) ==
  [mm EXCEPT !.showTableList = TRUE, !.tableList = msg.items]

\* ------------------------------------------------------------------ the program
Keys ==
  {"enter", "esc", "ctrl+c", "?", "ctrl+h", "ctrl+d", "up", "down", "left", "right", "tab",
   "backspace"}
    \cup Runes

\* What SelectedItem() of the list on screen may return when Enter is pressed:
\* any item the cursor can be moved to, nil for a list without items.
ItemsOr(items) == IF items = {} THEN {NoItem} ELSE items

SelectedItems(mm) ==
  IF mm.showConnectionForm THEN {NoItem}
  ELSE IF mm.showMainMenu THEN MainMenuItems
  ELSE IF mm.showHelp THEN {NoItem}
  ELSE IF mm.showHistory
  THEN ItemsOr({mm.historyList[i] : i \in 1 .. Len(mm.historyList)})
  ELSE IF mm.showCopyMenu THEN CopyItems
  ELSE IF mm.showTableList
  THEN ItemsOr({mm.tableList[i] : i \in 1 .. Len(mm.tableList)})
  ELSE {NoItem}

\* The bound on the user at the connection form: the form is filled front to
\* back, host and port keep their defaults, and a filled form is not edited.
FormKeyOffered(cf, k) ==
  LET filled == \A i \in Fields : Validate(i, cf.inputs[i])
  IN CASE k \in {"enter", "ctrl+c"} -> TRUE
       [] k = "tab" -> ~filled /\ Validate(cf.focus, cf.inputs[cf.focus])
       [] k \in FormRunes -> cf.focus \in 2 .. 4 /\ Len(cf.inputs[cf.focus]) < MaxField
       [] OTHER -> FALSE

\* The bound on what the user types: no more than MaxInput characters.
KeyOffered(mm, k) ==
  IF mm.showConnectionForm THEN FormKeyOffered(mm.connectionForm, k)
  ELSE (k \in Runes /\ InputActive(mm)) => Len(mm.input) < MaxInput

\* ------------------------------------------------------------------ the shell script
\* "Scroll Through Results" of the gum script (src/unnamed/part_000): the
\* script reads TOTAL_ROWS once, then loops: it runs the windowed SELECT,
\* prints the status line and the page, and asks for NAV_CHOICE.

\* LIMIT=20
LIMIT == 20
\* Most rows the browsed table holds, and the largest COUNT(*) read.
MaxTotal == 45

Min(a, b) == IF a < b THEN a ELSE b
Max(a, b) == IF a > b THEN a ELSE b

\* The choices of gum choose; "" when the prompt is left without a choice.
NavChoices == {"Previous", "Next", "Refresh", "Back to Menu", ""}

\* The script outside the loop, at the main menu.
ScrollOff ==
  [pc |-> "menu", total |-> 0, offset |-> 0, limit |-> 0, lines |-> 0,
   query |-> <<0, 0>>, range |-> <<0, 0>>, choice |-> "", notice |-> ""]

\* case "Previous" that subtracts LIMIT and never clamps, unlike PrevOffset.
PrevOffsetUnclamped(limit, offset) == offset - limit

\* case "Previous": OFFSET=$((OFFSET - LIMIT)), 0 when negative
PrevOffset(limit, offset) ==
  LET o == offset - limit IN IF o < 0 THEN 0 ELSE o

\* case "Next" that adds LIMIT and never clamps, unlike NextOffset.
NextOffsetUnclamped(total, limit, offset) == offset + limit

\* case "Next" that goes back to the first row when it reaches TOTAL_ROWS,
\* unlike NextOffset.
NextOffsetWraps(total, limit, offset) ==
  LET o == offset + limit IN IF o >= total THEN 0 ELSE o

\* case "Next": OFFSET=$((OFFSET + LIMIT)); when that reaches TOTAL_ROWS,
\* TOTAL_ROWS - LIMIT, 0 when negative
NextOffset(total, limit, offset) ==
  LET o == offset + limit
  IN IF o >= total
     THEN (LET c == total - limit IN IF c < 0 THEN 0 ELSE c)
     ELSE o

\* The notice each choice prints.
NavNotice(choice, total, limit, offset) ==
  IF choice = "Previous" /\ offset - limit < 0 THEN "Already at the beginning"
  ELSE IF choice = "Next" /\ offset + limit >= total THEN "Already at the end"
  ELSE ""

\* The lines SELECT * FROM t LIMIT limit OFFSET offset returns from a table
\* of rows rows.
RowsReturned(rows, limit, offset) == Min(limit, Max(0, rows - offset))

\* "Rows $((OFFSET + 1))-$((OFFSET + lines of OUTPUT)) of $TOTAL_ROWS"
StatusRange(offset, lines) == <<offset + 1, offset + lines>>

\* ------------------------------------------------------------------ the interactive shell
\* runInteractiveMode of the command line client (src/main.go).  A line is
\* the sequence of its characters.

\* Longest query buffer and longest history of the interactive shell.
MaxBuilder == 4
MaxShellHist == 3

\* strings.ToLower on the letters the lines below are made of
LowerChar(ch) ==
  CASE ch = "A" -> "a" [] ch = "C" -> "c" [] ch = "D" -> "d" [] ch = "E" -> "e"
    [] ch = "L" -> "l" [] ch = "R" -> "r" [] ch = "S" -> "s" [] ch = "T" -> "t"
    [] OTHER -> ch

ToLower(line) == [i \in 1 .. Len(line) |-> LowerChar(line[i])]

\* The special commands of the shell, by the case that handles them.
QuitWords == {<<"e", "x", "i", "t">>, <<"q", "u", "i", "t">>, <<"\\", "q">>}
HelpWords == {<<"h", "e", "l", "p">>, <<"\\", "h">>}
HistoryWords == {<<"h", "i", "s", "t", "o", "r", "y">>, <<"\\", "g">>}
ClearWords == {<<"c", "l", "e", "a", "r">>, <<"\\", "c">>}
StatusWords == {<<"s", "t", "a", "t", "u", "s">>, <<"\\", "s">>}
TablesWords == {<<"s", "h", "o", "w", " ", "t", "a", "b", "l", "e", "s">>, <<"\\", "d", "t">>}
DatabasesWords ==
  {<<"s", "h", "o", "w", " ", "d", "a", "t", "a", "b", "a", "s", "e", "s">>, <<"\\", "l">>}

\* The queries the special commands run themselves: showStatus its three,
\* listItems the one of its target.
StatusQueries ==
  <<<<"S", "E", "L", "E", "C", "T", " ", "V", "E", "R", "S", "I", "O", "N", "(", ")">>,
    <<"S", "E", "L", "E", "C", "T", " ", "N", "O", "W", "(", ")">>,
    <<"S", "E", "L", "E", "C", "T", " ", "C", "O", "N", "N", "E", "C", "T", "I", "O", "N",
      "_", "I", "D", "(", ")">>>>
ShowTables == <<"S", "H", "O", "W", " ", "T", "A", "B", "L", "E", "S">>
ShowDatabases == <<"S", "H", "O", "W", " ", "D", "A", "T", "A", "B", "A", "S", "E", "S">>

\* The lines typed at the prompt.
ShellLines ==
  {<<"a">>, <<"a", ";">>, <<"b", ";">>, <<";">>, <<" ", "a", ";", " ">>, <<" ">>,
   <<"c", "l", "e", "a", "r">>, <<"C", "l", "e", "a", "r">>, <<"\\", "c">>,
   <<"h", "i", "s", "t", "o", "r", "y">>, <<"h", "e", "l", "p">>, <<"e", "x", "i", "t">>,
   <<"\\", "d", "t">>, <<"\\", "l">>, <<"\\", "s">>}

\* A query that keeps its semicolon.
KeepSuffixSemi(t) == t

\* strings.HasSuffix(line, ";") and strings.TrimSuffix(s, ";")
HasSuffixSemi(line) == line # << >> /\ line[Len(line)] = ";"
TrimSuffixSemi(t) == IF HasSuffixSemi(t) THEN SubSeq(t, 1, Len(t) - 1) ELSE t

\* The shell as runInteractiveMode starts it.
ShellStart ==
  [pc |-> "prompt", queryBuilder |-> << >>, history |-> << >>, executed |-> << >>,
   shown |-> ""]

\* The special commands, tried while the query buffer is empty.
ShellCommand(sh, line) ==
  LET w == ToLower(line)
  IN CASE w \in QuitWords -> [sh EXCEPT !.pc = "returned", !.shown = "Goodbye", !.executed = << >>]
       [] w \in HelpWords -> [sh EXCEPT !.shown = "help", !.executed = << >>]
       [] w \in StatusWords -> [sh EXCEPT !.shown = "status", !.executed = StatusQueries]
       [] w \in DatabasesWords ->
            [sh EXCEPT !.shown = "databases", !.executed = <<ShowDatabases>>]
       [] w \in TablesWords -> [sh EXCEPT !.shown = "tables", !.executed = <<ShowTables>>]
       [] w \in HistoryWords -> [sh EXCEPT !.shown = "history", !.executed = << >>]
       [] w \in ClearWords ->
            [sh EXCEPT !.queryBuilder = << >>, !.shown = "Query cleared", !.executed = << >>]
       [] OTHER -> sh

IsCommand(line) ==
  ToLower(line) \in QuitWords \cup HelpWords \cup StatusWords \cup DatabasesWords
                    \cup TablesWords \cup HistoryWords \cup ClearWords

\* "Build multi-line query" and "Execute query if it ends with semicolon"
ShellBuild(sh, line) ==
  LET qb == IF line # << >>
            THEN (IF Len(sh.queryBuilder) > 0 THEN sh.queryBuilder \o <<" ">> ELSE << >>) \o line
            ELSE sh.queryBuilder
      query == TrimSpace(TrimSuffixSemi(qb))
  IN IF HasSuffixSemi(line)
     THEN IF query # << >>
          THEN [sh EXCEPT !.queryBuilder = << >>,
                          !.history = Append(sh.history, query),
                          !.executed = <<query>>,
                          !.shown = "result"]
          ELSE [sh EXCEPT !.queryBuilder = << >>, !.executed = << >>, !.shown = ""]
     ELSE [sh EXCEPT !.queryBuilder = qb, !.executed = << >>, !.shown = ""]

\* One turn of the loop of runInteractiveMode on the line the scanner read.
ShellStep(sh, text) ==
  LET line == TrimSpace(text)
  IN IF Len(sh.queryBuilder) = 0 /\ IsCommand(line)
     THEN ShellCommand(sh, line)
     ELSE ShellBuild(sh, line)

\* No function has been called yet.
NoCall == [fn |-> "none"]

\* No query has been submitted at the query input yet.
NoRace == [submitted |-> 0, newest |-> 0]

Init ==
  /\ m = initialModel
  /\ cmd = Lib("init")
  /\ inflight = EmptyBag
  /\ quit = FALSE
  /\ opened = 0
  /\ scroll = ScrollOff
  /\ shell = ShellStart
  /\ render = NoCall
  /\ race = NoRace

\* The key k is pressed while SelectedItem() of the list on screen is sel:
\* Update runs on the tea.KeyMsg and the runtime starts the command it returns.
KeyPressOffered(k, sel, offered) ==
  /\ ~quit
  /\ offered
  /\ \E created \in IF m.showCopyMenu /\ k = "enter" THEN BOOLEAN ELSE {TRUE} :
       LET r == UpdateKeyMsg(m, k, sel, created)
       IN /\ r.cmd.kind \in AsyncKinds => BagCardinality(inflight) < MaxInflight
          /\ m' = r.m
          /\ cmd' = r.cmd
          /\ inflight' = IF r.cmd.kind \in AsyncKinds THEN inflight (+) SetToBag({r.cmd})
                         ELSE inflight
          /\ quit' = (r.cmd.kind = "quit")
  /\ UNCHANGED opened
  /\ UNCHANGED <<scroll, shell, render, race>>

\* The key press under the bound KeyOffered on what the user types and the
\* bound MaxHist on the history.
KeyPress(k, sel) ==
  KeyPressOffered(k, sel, /\ KeyOffered(m, k)
                          /\ Len(UpdateKeyMsg(m, k, sel, TRUE).m.queryHistory) <= MaxHist)

KeyMsg ==
  \E k \in Keys : \E sel \in IF k = "enter" THEN SelectedItems(m) ELSE {NoItem} :
    KeyPress(k, sel)

\* The connect command c finishes: sql.Open, then Ping, and Update runs on the
\* ConnectionFormMsg.  A handle that fails the Ping is not closed.
ConnectionFormDoneWithin(c, outcome, handles) ==
  /\ ~quit
  /\ BagIn(c, inflight)
  /\ c.kind = "connect"
  /\ outcome # "open failed" => opened < handles
  /\ LET msg == IF outcome = "connected" THEN [db |-> opened + 1, err |-> FALSE]
                ELSE [db |-> 0, err |-> TRUE]
     IN m' = UpdateConnectionFormMsg(m, msg)
  /\ opened' = IF outcome = "open failed" THEN opened ELSE opened + 1
  /\ inflight' = inflight (-) SetToBag({c})
  /\ cmd' = None
  /\ UNCHANGED quit
  /\ UNCHANGED <<scroll, shell, render, race>>

\* The same under the bound MaxHandles on the handles of one run.
ConnectionFormDone(c, outcome) == ConnectionFormDoneWithin(c, outcome, MaxHandles)

DeliverConnectionFormMsg ==
  \E c \in BagToSet(inflight), outcome \in {"open failed", "ping failed", "connected"} :
    ConnectionFormDone(c, outcome)

\* The messages a finished query command may deliver as queryResultMsg.
RECURSIVE TableRows(_)
TableRows(tables) ==
  IF tables = << >> THEN << >> ELSE <<<<Head(tables)>>>> \o TableRows(Tail(tables))

QueryResults(c) ==
  {[rows |-> << >>, cols |-> << >>, err |-> TRUE]} \cup
  CASE c.kind = "showTables" ->
         {[rows |-> TableRows(t), cols |-> <<"Table Name">>, err |-> FALSE] : t \in TableLists}
    [] c.kind = "showTableSelection" -> {}
    [] OTHER -> {[rows |-> r.rows, cols |-> r.cols, err |-> FALSE] : r \in Rowsets}

\* The query command c finishes and Update runs on its queryResultMsg.
QueryResultDone(c, msg) ==
  /\ ~quit
  /\ BagIn(c, inflight)
  /\ c.kind \in AsyncKinds \ {"connect"}
  /\ msg \in QueryResults(c)
  /\ LET r == InputUpdate(UpdateQueryResultMsg(m, msg), "queryResultMsg")
     IN m' = r.m /\ cmd' = r.cmd
  /\ inflight' = inflight (-) SetToBag({c})
  /\ UNCHANGED <<quit, opened>>
  /\ UNCHANGED <<scroll, shell, render, race>>

DeliverQueryResultMsg ==
  \E c \in BagToSet(inflight) : \E msg \in QueryResults(c) : QueryResultDone(c, msg)

\* The items a table listing delivers in its tableSelectionMsg.
RECURSIVE tableItems(_)
tableItems(tables) ==
  IF tables = << >> THEN << >> ELSE <<[name |-> Head(tables)]>> \o tableItems(Tail(tables))

\* The table listing command c finishes and Update runs on its tableSelectionMsg.
TableSelectionDone(c, tables) ==
  /\ ~quit
  /\ BagIn(c, inflight)
  /\ c.kind = "showTableSelection"
  /\ m' = UpdateTableSelectionMsg(m, [items |-> tableItems(tables)])
  /\ inflight' = inflight (-) SetToBag({c})
  /\ cmd' = None
  /\ UNCHANGED <<quit, opened>>
  /\ UNCHANGED <<scroll, shell, render, race>>

DeliverTableSelectionMsg ==
  \E c \in BagToSet(inflight), t \in TableLists : TableSelectionDone(c, t)

Next ==
  \/ KeyMsg
  \/ DeliverConnectionFormMsg
  \/ DeliverQueryResultMsg
  \/ DeliverTableSelectionMsg

Spec == Init /\ [][Next]_vars

\* ------------------------------------------------------------------ the scroll loop
\* "Scroll Through Results" is chosen and a table picked: COUNT(*) answers
\* total, or fails and the script goes back to its menu.
ScrollStart(total, ok) ==
  /\ scroll.pc = "menu"
  /\ scroll' = IF ok
               THEN [ScrollOff EXCEPT !.pc = "query", !.total = total, !.limit = LIMIT]
               ELSE [ScrollOff EXCEPT !.notice = "Error"]
  /\ UNCHANGED <<tuiVars, shell, render, race>>

\* The top of the loop: the windowed SELECT runs against the table, which
\* holds rows rows by now.  An error or an empty OUTPUT leaves the loop;
\* otherwise the status line and the page are printed.
ScrollQuery(rows, ok) ==
  /\ scroll.pc = "query"
  /\ LET lines == RowsReturned(rows, scroll.limit, scroll.offset)
         s1 == [scroll EXCEPT !.query = <<scroll.limit, scroll.offset>>]
     IN scroll' =
          IF ~ok THEN [s1 EXCEPT !.pc = "menu", !.lines = 0, !.notice = "Error"]
          ELSE IF lines = 0
          THEN [s1 EXCEPT !.pc = "menu", !.lines = 0, !.notice = "No more data to show"]
          ELSE [s1 EXCEPT !.pc = "choose", !.lines = lines,
                          !.range = StatusRange(scroll.offset, lines),
                          !.notice = ""]
  /\ UNCHANGED <<tuiVars, shell, render, race>>

\* NAV_CHOICE=$(gum choose ...) and the case statement on it.
ScrollChoose(choice) ==
  /\ scroll.pc = "choose"
  /\ scroll' =
       [scroll EXCEPT
          !.choice = choice,
          !.pc = IF choice = "Back to Menu" THEN "menu" ELSE "query",
          !.offset = CASE choice = "Previous" -> PrevOffset(scroll.limit, scroll.offset)
                       [] choice = "Next" -> NextOffset(scroll.total, scroll.limit, scroll.offset)
                       [] OTHER -> scroll.offset,
          !.notice = NavNotice(choice, scroll.total, scroll.limit, scroll.offset)]
  /\ UNCHANGED <<tuiVars, shell, render, race>>

ScrollCount == \E total \in 0 .. MaxTotal, ok \in BOOLEAN : ScrollStart(total, ok)

ScrollSelect == \E rows \in 0 .. MaxTotal, ok \in BOOLEAN : ScrollQuery(rows, ok)

ScrollNav == \E choice \in NavChoices : ScrollChoose(choice)

ScrollNext ==
  \/ ScrollCount
  \/ ScrollSelect
  \/ ScrollNav

ScrollSpec == Init /\ [][ScrollNext]_vars

\* ------------------------------------------------------------------ claims
\* The number of view flags set in the model.
FlagsSet(mm) == Cardinality({f \in ViewFlags : mm[f]})

\* C1: in every reachable state at most one of showConnectionForm,
\* showMainMenu, showTableList, showHelp, showHistory, showCopyMenu and
\* browsingTable is true.
C1_AtMostOneView == FlagsSet(m) <= 1

\* The query commands started by Enter that have not delivered their result.
QueriesInFlight == {c \in BagToSet(inflight) : c.kind = "execQuery"}

\* C2: while a submitted query has not delivered its queryResultMsg (loading
\* is true), Enter with a non-empty input in FreeQuery starts no second query.
C2_EnterWhileLoadingStartsNoQuery ==
  [][(/\ m.loading
      /\ QueriesInFlight # {}
      /\ KeyView(m) = "FreeQuery"
      /\ TrimSpace(m.input) # << >>
      /\ KeyPress("enter", NoItem))
     => (cmd'.kind # "execQuery" /\ inflight' = inflight)]_vars

\* Every field of the connection form passes its validator.
FormValid(cf) == \A i \in Fields : Validate(i, cf.inputs[i])

\* C3: the session starts in Connecting with the form shown and no handle; a
\* connection attempt that succeeds there hands the handle to the model and
\* shows MainMenu; one that fails leaves the session in Connecting with the
\* error attached to the form, connecting false and no handle stored, and
\* Enter on the still valid form then starts a new attempt.
C3_ConnectingUntilConnected ==
  /\ View(m) = "Connecting" /\ m.db = 0
  /\ [][/\ \A c \in BagToSet(inflight) :
             \A outcome \in {"open failed", "ping failed", "connected"} :
               (View(m) = "Connecting" /\ ConnectionFormDone(c, outcome)) =>
                 IF outcome = "connected"
                 THEN /\ View(m') = "MainMenu"
                      /\ ~m'.showConnectionForm
                      /\ m'.db = opened' /\ m'.db # 0
                 ELSE /\ View(m') = "Connecting"
                      /\ m'.connectionForm.err
                      /\ ~m'.connectionForm.connecting
                      /\ m'.db = m.db
        /\ (/\ View(m) = "Connecting"
            /\ m.connectionForm.err /\ ~m.connectionForm.connecting
            /\ FormValid(m.connectionForm)
            /\ KeyPress("enter", NoItem))
           => (/\ cmd'.kind = "connect"
               /\ inflight' = inflight (+) SetToBag({cmd'})
               /\ m'.connectionForm.connecting)]_vars

\* MainMenu is on screen with a handle after a failed attempt was retried:
\* the error of the failed attempt is still attached to the form, and
\* connecting was set again by the Enter that started the retry.
C3_RetryConnected ==
  /\ View(m) = "MainMenu" /\ m.db # 0
  /\ m.connectionForm.err /\ m.connectionForm.connecting
  /\ cmd = None /\ inflight = EmptyBag

\* C4: in MainMenu, Enter on "Run Custom Query" hides the menu and makes the
\* query input the active view.
C4_RunCustomQueryOpensInput ==
  [][(View(m) = "MainMenu" /\ KeyPress("enter", [title |-> "Run Custom Query"]))
     => (~m'.showMainMenu /\ InputActive(m'))]_vars

\* The entries of the main menu that list the tables for a selection.
TableEntries == {"Show Table Data", "Copy Table Structure", "Scroll Through Results"}

\* C5: in MainMenu, Enter on an entry that lists the tables starts the table
\* listing, and when its tableSelectionMsg is delivered TableList is the
\* active view: showTableList is true and showMainMenu is false.
C5_TableListAfterSelectionMsg ==
  [][/\ \A t \in TableEntries :
          (View(m) = "MainMenu" /\ KeyPress("enter", [title |-> t]))
          => (cmd'.kind = "showTableSelection" /\ inflight' = inflight (+) SetToBag({cmd'}))
     /\ \A c \in BagToSet(inflight) : \A tables \in TableLists :
          TableSelectionDone(c, tables)
          => (m'.showTableList /\ ~m'.showMainMenu /\ View(m') = "TableList")]_vars

\* C6: in TableList, Enter on a table starts the query for its rows and, once
\* that query has delivered its rows, TableBrowse is active (browsingTable is
\* true); Esc in TableList goes back to MainMenu.
C6_TableBrowseAfterSelection ==
  [][/\ \A sel \in SelectedItems(m) :
          (KeyView(m) = "TableList" /\ sel # NoItem /\ KeyPress("enter", sel))
          => (cmd'.kind = "handleTableSelection" /\ m'.selectedTable = sel.name)
     /\ \A c \in BagToSet(inflight) : \A msg \in QueryResults(c) :
          (c.kind = "handleTableSelection" /\ ~msg.err /\ QueryResultDone(c, msg))
          => m'.browsingTable
     /\ (KeyView(m) = "TableList" /\ KeyPress("esc", NoItem))
        => View(m') = "MainMenu"]_vars

\* C7: while the rows of the table chosen in TableList are browsed, the left
\* and right keys stay in TableBrowse and start the query for the window of
\* rows again; Esc goes back to MainMenu.
C7_PagingReissuesQuery ==
  [][/\ \A k \in {"left", "right"} :
          (m.selectedTable # "" /\ ~m.showTableList /\ KeyPress(k, NoItem))
          => (m'.browsingTable /\ cmd'.kind = "handleTableSelection")
     /\ (m.browsingTable /\ KeyView(m) = "TableBrowse" /\ KeyPress("esc", NoItem))
        => View(m') = "MainMenu"]_vars

\* C8 as the code has it: in FreeQuery, Esc clears the query input and the
\* session stays in FreeQuery; no command of the program is started.
C8_EscClearsInput ==
  [][(KeyView(m) = "FreeQuery" /\ KeyPress("esc", NoItem))
     => (/\ m'.input = << >>
         /\ View(m') = "FreeQuery" /\ KeyView(m') = "FreeQuery"
         /\ ~m'.showMainMenu
         /\ cmd' = Lib("input")
         /\ inflight' = inflight)]_vars

\* C8 as stated: in FreeQuery, Esc returns to MainMenu.
C8_EscReturnsToMainMenu ==
  [][(KeyView(m) = "FreeQuery" /\ KeyPress("esc", NoItem))
     => View(m') = "MainMenu"]_vars

\* FreeQuery with an empty input right after a key went to the input, with a
\* result of an earlier query still held: the text that query was typed as
\* has been cleared.
C8_InputCleared ==
  /\ View(m) = "FreeQuery" /\ KeyView(m) = "FreeQuery"
  /\ m.input = << >>
  /\ m.queryHistory # << >>
  /\ m.lastQueryResult # << >>
  /\ cmd = Lib("input")

\* The views opened on top of the query input.  ?, Ctrl+H and Ctrl+D are
\* handled by the last switch of Update only, so FreeQuery is the view each
\* of them is opened from.
Overlays == {"HelpView", "HistoryView", "CopyExportMenu"}

\* C9: closing HelpView, HistoryView or CopyExportMenu, with Esc or by
\* completing a copy action, goes back to the view it was opened from, which
\* is FreeQuery.
C9_OverlayReturnsToInvoker ==
  [][/\ \A k \in {"?", "ctrl+h", "ctrl+d"} :
          (KeyPress(k, NoItem) /\ View(m') \in Overlays /\ View(m) \notin Overlays)
          => View(m) = "FreeQuery"
     /\ (View(m) \in Overlays /\ KeyView(m) = View(m) /\ KeyPress("esc", NoItem))
        => View(m') = "FreeQuery"
     /\ \A sel \in CopyItems :
          (View(m) = "CopyExportMenu" /\ KeyView(m) = View(m) /\ KeyPress("enter", sel))
          => View(m') = "FreeQuery"]_vars

\* C10: in HistoryView, Enter on an entry puts the text of the entry in the
\* query input, closes HistoryView and makes FreeQuery active; no query is
\* started and the history is left as it was.
C10_HistoryEnterLoadsEntry ==
  [][\A sel \in SelectedItems(m) :
       (/\ View(m) = "HistoryView" /\ KeyView(m) = "HistoryView"
        /\ sel # NoItem
        /\ KeyPress("enter", sel))
       => (/\ sel.query = m.queryHistory[sel.index]
           /\ m'.input = sel.query
           /\ ~m'.showHistory
           /\ View(m') = "FreeQuery" /\ KeyView(m') = "FreeQuery"
           /\ cmd'.kind \notin AsyncKinds
           /\ inflight' = inflight
           /\ m'.loading = m.loading
           /\ m'.queryHistory = m.queryHistory
           /\ m'.historyList = m.historyList)]_vars

\* FreeQuery right after the history list handled the key that closed it,
\* with the text of the history entry in the input and no query running.
C10_EntryLoaded ==
  /\ View(m) = "FreeQuery" /\ KeyView(m) = "FreeQuery"
  /\ cmd = Lib("historyList")
  /\ m.queryHistory # << >>
  /\ m.input = m.queryHistory[1]
  /\ inflight = EmptyBag

\* ------------------------------------------------------------------ the shell loop
\* The scanner reads the line text and the loop of runInteractiveMode runs once.
ShellLine(text) ==
  /\ shell.pc = "prompt"
  /\ LET sh == ShellStep(shell, text)
     IN /\ Len(sh.queryBuilder) <= MaxBuilder
        /\ Len(sh.history) <= MaxShellHist
        /\ shell' = sh
  /\ UNCHANGED <<tuiVars, scroll, render, race>>

\* scanner.Scan() answers false: the loop is left.
ShellEOF ==
  /\ shell.pc = "prompt"
  /\ shell' = [shell EXCEPT !.pc = "returned", !.executed = << >>, !.shown = ""]
  /\ UNCHANGED <<tuiVars, scroll, render, race>>

ShellRead == \E text \in ShellLines : ShellLine(text)

ShellNext ==
  \/ ShellRead
  \/ ShellEOF

ShellSpec == Init /\ [][ShellNext]_vars

\* ------------------------------------------------------------------ claims, continued
\* The views whose keys end in the Update of a bubbles list, which answers
\* them with a command of its own.
ListViews == {"MainMenu", "HistoryView", "CopyExportMenu", "TableList"}

\* C11: from every view, Update on a Ctrl+C key returns the quit command.  In
\* the views that hand the key to their list the command is the list's, which
\* is taken to be the quit command.
C11_CtrlCQuitsEverywhere ==
  ~quit =>
    LET r == UpdateKeyMsg(m, "ctrl+c", NoItem, TRUE)
    IN r.cmd = Quit \/ (KeyView(m) \in ListViews /\ r.cmd.kind = "lib")

\* No two neighbours of the sequence h are equal.
NoAdjacentEqual(h) == \A i \in 1 .. Len(h) - 1 : h[i] # h[i + 1]

\* C12: the history never holds two adjacent entries with equal text, in the
\* Bubble Tea session and in the interactive shell alike.
C12_NoAdjacentEqualHistory ==
  /\ NoAdjacentEqual(m.queryHistory)
  /\ NoAdjacentEqual(shell.history)

\* The scroll loop is running: TOTAL_ROWS, LIMIT and OFFSET are set.
Scrolling == scroll.pc \in {"query", "choose"}

\* C13 as the code has it: in the scroll loop (limit 20, offset starting at
\* 0), for every total >= 0 and after any Previous, Next and Refresh steps,
\* 0 <= offset <= max(0, total - 1).
C13_OffsetBelowTotal ==
  Scrolling => (/\ scroll.limit = LIMIT
                /\ 0 <= scroll.offset
                /\ scroll.offset <= Max(0, scroll.total - 1))

\* C13 as stated: 0 <= offset <= max(0, total - limit).
C13_OffsetWithinLastFullWindow ==
  Scrolling => (0 <= scroll.offset /\ scroll.offset <= Max(0, scroll.total - scroll.limit))

\* Next has moved to the last row of the table: the offset is total - 1,
\* beyond max(0, total - limit).
C13_OffsetAtLastRow ==
  /\ Scrolling /\ scroll.choice = "Next"
  /\ scroll.offset = scroll.total - 1
  /\ scroll.offset > Max(0, scroll.total - scroll.limit)

\* C14: Next sets offset to offset + limit when that sum is below total and
\* to max(0, total - limit) otherwise, and leaves total and limit alone; with
\* total 25 and limit 20 the first Next from 0 gives 20, the second gives 5.
C14_NextClampsToLastWindow ==
  /\ NextOffset(25, 20, 0) = 20 /\ NextOffset(25, 20, 20) = 5
  /\ [][ScrollChoose("Next")
        => (/\ scroll'.offset = IF scroll.offset + scroll.limit < scroll.total
                                THEN scroll.offset + scroll.limit
                                ELSE Max(0, scroll.total - scroll.limit)
            /\ scroll'.total = scroll.total
            /\ scroll'.limit = scroll.limit)]_vars

\* The second Next of a table of 25 rows: the page of rows 21-25 was shown
\* and the offset is now 5.
C14_SecondNextOf25 ==
  /\ scroll.pc = "query" /\ scroll.choice = "Next"
  /\ scroll.total = 25 /\ scroll.limit = 20
  /\ scroll.range = <<21, 25>>
  /\ scroll.offset = 5

\* C15: Previous sets offset to max(0, offset - limit), never to a negative
\* number, and leaves total and limit alone; from offset 5 with limit 20 it
\* gives 0.
C15_PrevStopsAtZero ==
  /\ PrevOffset(20, 5) = 0
  /\ [][ScrollChoose("Previous")
        => (/\ scroll'.offset = Max(0, scroll.offset - scroll.limit)
            /\ scroll'.offset >= 0
            /\ scroll'.total = scroll.total
            /\ scroll'.limit = scroll.limit)]_vars

\* Previous was chosen on the page that starts at row 6 (offset 5): the
\* offset is now 0.
C15_PrevFromOffset5 ==
  /\ scroll.pc = "query" /\ scroll.choice = "Previous"
  /\ scroll.range[1] = 6
  /\ scroll.offset = 0
  /\ scroll.notice = "Already at the beginning"

\* C16: Refresh leaves the pagination window (total, limit, offset or current
\* page) as it is and runs the windowed query for that window again.  In the
\* Bubble Tea session the key is r, pressed while the table chosen in
\* TableList is browsed.
C16_RefreshReexecutes ==
  (~quit /\ m.selectedTable # "" /\ ~m.showTableList /\ KeyView(m) # "FreeQuery") =>
    LET r == UpdateKeyMsg(m, "r", NoItem, TRUE)
    IN /\ r.m.currentPage = m.currentPage
       /\ r.m.rowsPerPage = m.rowsPerPage
       /\ r.m.totalRows = m.totalRows
       /\ r.cmd.kind = "handleTableSelection"

\* C17: the status line of a page is (offset + 1, min(offset + rows returned,
\* total)): its upper end never exceeds total, also when total is 0 and when
\* the number of rows of the table changed after total was read.
C17_RangeWithinTotal ==
  scroll.pc = "choose" =>
    (/\ scroll.range = <<scroll.offset + 1, Min(scroll.offset + scroll.lines, scroll.total)>>
     /\ scroll.range[2] <= scroll.total)

\* The result of a query that succeeded is held as the last result.
ResultCached(mm) == mm.lastQueryCols # << >>

\* C18 as the code has it: Ctrl+D in FreeQuery opens CopyExportMenu if and
\* only if the cached last result has at least one row; otherwise the view
\* stays as it is, only the warning status is set, and no command of the
\* program is started either way.
C18_CopyMenuNeedsRows ==
  (~quit /\ KeyView(m) = "FreeQuery") =>
    LET r == UpdateKeyMsg(m, "ctrl+d", NoItem, TRUE)
    IN /\ (View(r.m) = "CopyExportMenu") <=> (Len(m.lastQueryResult) > 0)
       /\ Len(m.lastQueryResult) > 0 => r.m = [m EXCEPT !.showCopyMenu = TRUE]
       /\ Len(m.lastQueryResult) = 0 => r.m = [m EXCEPT !.status = <<"no data to copy", 0>>]
       /\ r.cmd.kind \notin AsyncKinds

\* C18 as stated: Ctrl+D in FreeQuery opens CopyExportMenu if and only if a
\* query result is held in the cache.
C18_CopyMenuIffResultCached ==
  (~quit /\ KeyView(m) = "FreeQuery") =>
    LET r == UpdateKeyMsg(m, "ctrl+d", NoItem, TRUE)
    IN (View(r.m) = "CopyExportMenu") <=> ResultCached(m)

\* Ctrl+D has answered with the warning although the result of a query that
\* returned no rows is cached.
C18_WarningWithEmptyResult ==
  /\ View(m) = "FreeQuery"
  /\ m.status = <<"no data to copy", 0>>
  /\ ResultCached(m) /\ Len(m.lastQueryResult) = 0

\* C19: when a queryResultMsg with an error is processed, every view flag and
\* the text of the query input are as before, the view shown is the same,
\* the cached result is kept, and the error is attached to the model.
C19_QueryErrorKeepsViewAndInput ==
  [][\A c \in BagToSet(inflight) : \A msg \in QueryResults(c) :
       (msg.err /\ QueryResultDone(c, msg))
       => (/\ \A f \in ViewFlags : m'[f] = m[f]
           /\ View(m') = View(m) /\ KeyView(m') = KeyView(m)
           /\ m'.input = m.input
           /\ m'.lastQueryResult = m.lastQueryResult
           /\ m'.err
           /\ m'.status = <<"query failed", 0>>)]_vars

\* A failed query has been reported in FreeQuery with the text that was typed
\* still in the input.
C19_ErrorShownWithInput ==
  /\ View(m) = "FreeQuery"
  /\ m.err /\ m.status = <<"query failed", 0>>
  /\ m.input # << >>
  /\ cmd = Lib("input")

\* C20: every copy or export action (CSV, table, JSON, file, statistics),
\* whether it succeeds or fails, starts no query and leaves lastQueryResult
\* and lastQueryCols as they are, in the model Update returns and in the copy
\* of the model the action works on.
C20_CopyUsesCacheOnly ==
  (~quit /\ KeyView(m) = "CopyExportMenu") =>
    \A sel \in CopyItems : \A created \in BOOLEAN :
      LET r == UpdateKeyMsg(m, "enter", sel, created)
          copy == handleCopyAction(m, sel.title, created)
      IN /\ r.cmd.kind \notin AsyncKinds
         /\ r.m.lastQueryResult = m.lastQueryResult
         /\ r.m.lastQueryCols = m.lastQueryCols
         /\ copy.lastQueryResult = m.lastQueryResult
         /\ copy.lastQueryCols = m.lastQueryCols
         /\ copy.db = m.db

\* The copy menu has just been closed by its own handler and the rows it
\* worked on are still cached, with no query running.
C20_CopyDoneCacheKept ==
  /\ cmd = Lib("copyMenu")
  /\ ~m.showCopyMenu /\ m.showMainMenu
  /\ Len(m.lastQueryResult) > 0
  /\ inflight = EmptyBag

\* ------------------------------------------------------------------ the connection phase
\* The session while the connection form is on screen, with the form edited
\* freely: any field may be left empty, and more handles may be opened.

\* Most database handles sql.Open hands out while the form is on screen.
MaxConnHandles == 2

ConnKeys == {"tab", "enter", "backspace", "ctrl+c"} \cup FormRunes

\* The bound on what is typed into a field: no more than MaxField characters.
ConnKeyOffered(cf, k) == k \in FormRunes => Len(cf.inputs[cf.focus]) < MaxField

\* A key is pressed at the connection form.
ConnKeyPress(k) ==
  /\ m.showConnectionForm
  /\ KeyPressOffered(k, NoItem, ConnKeyOffered(m.connectionForm, k))

ConnKeyMsg == \E k \in ConnKeys : ConnKeyPress(k)

ConnDeliver ==
  \E c \in BagToSet(inflight), outcome \in {"open failed", "ping failed", "connected"} :
    ConnectionFormDoneWithin(c, outcome, MaxConnHandles)

ConnNext ==
  \/ ConnKeyMsg
  \/ ConnDeliver

ConnSpec == Init /\ [][ConnNext]_vars

\* The handles that are open: sql.Open has handed them out and nothing has
\* closed them. The terminal program calls Close on no handle, neither after
\* a failed Ping nor when ConnectionFormMsg replaces m.db.
LiveHandles == opened

\* C21: at most one database handle is opened and not closed at any time,
\* whatever was submitted at the connection form and however the connection
\* attempts ended.
C21_AtMostOneLiveHandle == LiveHandles <= 1

\* C22: Enter at the connection form starts a connection attempt exactly
\* when the user and the database fields are both non-empty.
C22_ConnectIffUserAndDatabase ==
  (m.showConnectionForm /\ ~quit) =>
    LET cf == m.connectionForm
        r == ConnectionFormUpdate(cf, "enter")
    IN (r.cmd.kind = "connect") <=> (cf.inputs[2] # << >> /\ cf.inputs[4] # << >>)

\* ------------------------------------------------------------------ queries and results
\* The functions that take a query to the driver and a result to text, each
\* called with inputs of its own.

\* strings.HasPrefix
HasPrefix(s, prefix) == Len(s) >= Len(prefix) /\ SubSeq(s, 1, Len(prefix)) = prefix

\* The words executeQuery looks for at the start of a query.
ReadWords ==
  {<<"s", "e", "l", "e", "c", "t">>, <<"s", "h", "o", "w">>,
   <<"d", "e", "s", "c", "r", "i", "b", "e">>, <<"d", "e", "s", "c">>}

\* executeQuery: queryLower is the query trimmed and in lower case, and the
\* query goes to executeSelectQuery when it starts with one of the words.
IsSelectQuery(query) ==
  LET queryLower == ToLower(TrimSpace(query))
  IN \E w \in ReadWords : HasPrefix(queryLower, w)

\* The queries handed to the functions.
Queries ==
  {<<"s", "e", "l", "e", "c", "t", " ", "1">>, <<" ", "S", "E", "L", "E", "C", "T", " ">>,
   <<"s", "h", "o", "w">>, <<"D", "e", "s", "c", " ", "t">>,
   <<"d", "e", "s", "c", "r", "i", "b", "e">>, <<"d", "e", "s">>, << >>,
   <<"i", "n", "s", "e", "r", "t">>, <<"d", "e", "l", "e", "t", "e">>,
   <<"x", "s", "e", "l", "e", "c", "t">>, <<"s", "e", "l", "e", "c", "t", "x">>}

\* The values database/sql hands to Scan for a column of interface{}: nil,
\* []byte, string, int64, float64 (here a number of halves, so that every
\* value is exact) and bool.
DriverValues ==
  {[kind |-> "nil"]}
  \cup {[kind |-> "bytes", text |-> t] : t \in {<<"a">>}}
  \cup {[kind |-> "string", text |-> t] : t \in {<<"a">>, << >>}}
  \cup {[kind |-> "int64", n |-> n] : n \in {-1, 0, 12}}
  \cup {[kind |-> "float64", halves |-> h] : h \in {-1, 0, 3, 4}}
  \cup {[kind |-> "bool", b |-> b] : b \in BOOLEAN}

DigitChar(d) == <<"0", "1", "2", "3", "4", "5", "6", "7", "8", "9">>[d + 1]

\* fmt's %d of an integer
RECURSIVE FormatD(_)
FormatD(n) ==
  IF n < 0 THEN <<"-">> \o FormatD(-n)
  ELSE IF n < 10 THEN <<DigitChar(n)>>
  ELSE FormatD(n \div 10) \o <<DigitChar(n % 10)>>

Abs(n) == IF n < 0 THEN -n ELSE n

\* fmt's %f of a float64 of h halves: six digits after the point.
FormatF(h) ==
  (IF h < 0 THEN <<"-">> ELSE << >>) \o FormatD(Abs(h) \div 2) \o <<".">>
  \o (IF h % 2 = 0 THEN <<"0", "0", "0", "0", "0", "0">>
      ELSE <<"5", "0", "0", "0", "0", "0">>)

\* fmt's %v of a float64 of h halves (%g): the shortest text that reads
\* back as the value.
FormatG(h) ==
  (IF h < 0 THEN <<"-">> ELSE << >>) \o FormatD(Abs(h) \div 2)
  \o (IF h % 2 = 0 THEN << >> ELSE <<".", "5">>)

\* fmt's %t of a bool
FormatT(b) == IF b THEN <<"t", "r", "u", "e">> ELSE <<"f", "a", "l", "s", "e">>

\* fmt's %v of a value that is not nil
FormatV(v) ==
  CASE v.kind \in {"bytes", "string"} -> v.text
    [] v.kind = "int64" -> FormatD(v.n)
    [] v.kind = "float64" -> FormatG(v.halves)
    [] OTHER -> FormatT(v.b)

\* The text of a nil value on every path.
NULL == <<"N", "U", "L", "L">>

\* executeSelectQuery: the cell of a scanned value; string(v) for []byte,
\* %v for every other value.
selectCell(val) ==
  IF val.kind = "nil" THEN NULL
  ELSE IF val.kind = "bytes" THEN val.text
  ELSE FormatV(val)

\* exportResults: the cell of a scanned value, before it is escaped.
exportCell(val) ==
  IF val.kind = "nil" THEN NULL
  ELSE IF val.kind = "bytes" THEN val.text
  ELSE FormatV(val)

\* execQuery of the terminal program: the cell of a scanned value, by type.
execQueryCell(val) ==
  CASE val.kind = "nil" -> NULL
    [] val.kind = "bytes" -> val.text
    [] val.kind = "string" -> val.text
    [] val.kind = "int64" -> FormatD(val.n)
    [] val.kind = "float64" -> FormatF(val.halves)
    [] OTHER -> FormatT(val.b)

\* handleTableSelection: the rows of the chosen table, the cell of a scanned
\* value by type.
tableSelectionCell(val) ==
  CASE val.kind = "nil" -> NULL
    [] val.kind = "bytes" -> val.text
    [] val.kind = "string" -> val.text
    [] val.kind = "int64" -> FormatD(val.n)
    [] val.kind = "float64" -> FormatF(val.halves)
    [] OTHER -> FormatT(val.b)

\* One value through the four places that turn a scanned value into a cell.
cells(val) ==
  [fn |-> "cell", value |-> val, display |-> selectCell(val), export |-> exportCell(val),
   query |-> execQueryCell(val), selection |-> tableSelectionCell(val)]

\* Most columns and most rows of the answer of the driver.
MaxCols == 2
MaxRows == 2

\* rows.Columns(): the first n of the column names.
ColumnNames == <<<<"a">>, <<"b">>, <<"c">>>>
Columns(n) == SubSeq(ColumnNames, 1, n)

\* The values of the rows that are scanned.
ScanValues ==
  {[kind |-> "nil"], [kind |-> "bytes", text |-> <<"a">>], [kind |-> "float64", halves |-> 3]}

\* What the driver answers db.Query with: the columns, and for every row that
\* rows.Next() announces the values Scan stores, one for each column.
DriverAnswers ==
  UNION {[columns : {Columns(n)},
          values : UNION {[1 .. r -> [1 .. n -> ScanValues]] : r \in 0 .. MaxRows}]
         : n \in 0 .. MaxCols}

\* A row that leaves the NULL cells out.
ScanRowSkipsNull(columns, texts) == SelectSeq(texts, LAMBDA t : t # NULL)

\* row := make([]string, len(columns)), filled with the texts of the scanned
\* values.
ScanRow(columns, texts) == [i \in 1 .. Len(columns) |-> texts[i]]

\* The command line client's executeQuery: db.Query in executeSelectQuery for
\* a query that starts with one of the words, db.Exec in executeModifyQuery
\* for every other query.
executeQuery(query) ==
  [fn |-> "executeQuery", query |-> query,
   call |-> IF IsSelectQuery(query) THEN "Query" ELSE "Exec"]

\* executeSelectQuery: the columns and the rows handed to the renderer.
executeSelectQuery(answer) ==
  [fn |-> "executeSelectQuery", columns |-> answer.columns,
   rows |-> [r \in 1 .. Len(answer.values) |->
              ScanRow(answer.columns,
                      [i \in 1 .. Len(answer.columns) |-> selectCell(answer.values[r][i])])]]

\* The terminal program's execQuery: db.Query whatever the query is, and the
\* rows and columns it returns.
execQuery(query, answer) ==
  [fn |-> "execQuery", query |-> query, call |-> "Query", columns |-> answer.columns,
   rows |-> [r \in 1 .. Len(answer.values) |->
              ScanRow(answer.columns,
                      [i \in 1 .. Len(answer.columns) |-> execQueryCell(answer.values[r][i])])]]

\* The calls, each in a run of its own.
ExecuteQueryCall ==
  /\ render = NoCall
  /\ \E query \in Queries : render' = executeQuery(query)
  /\ UNCHANGED <<tuiVars, scroll, shell, race>>

ExecuteSelectQueryCall ==
  /\ render = NoCall
  /\ \E answer \in DriverAnswers : render' = executeSelectQuery(answer)
  /\ UNCHANGED <<tuiVars, scroll, shell, race>>

ExecQueryCall ==
  /\ render = NoCall
  /\ \E query \in Queries, answer \in DriverAnswers : render' = execQuery(query, answer)
  /\ UNCHANGED <<tuiVars, scroll, shell, race>>

CellsCall ==
  /\ render = NoCall
  /\ \E val \in DriverValues : render' = cells(val)
  /\ UNCHANGED <<tuiVars, scroll, shell, race>>

FormatNext ==
  \/ ExecuteQueryCall
  \/ ExecuteSelectQueryCall
  \/ ExecQueryCall
  \/ CellsCall

FormatSpec == Init /\ [][FormatNext]_vars

\* C23: on the command line path and on the terminal program's path alike, a
\* query is run as a read (db.Query, columns and rows) exactly when its
\* trimmed, lower-cased text begins with select, show, describe or desc, and
\* as a write (db.Exec, an affected-row count) otherwise.
C23_ReadIffReadWord ==
  render.fn \in {"executeQuery", "execQuery"} =>
    ((render.call = "Query") <=> IsSelectQuery(render.query))

\* C24: the result of a read query is rectangular: every row has as many
\* cells as there are columns, whatever the number of rows.
C24_Rectangular ==
  render.fn \in {"executeSelectQuery", "execQuery"} =>
    \A r \in 1 .. Len(render.rows) : Len(render.rows[r]) = Len(render.columns)

\* A result of two rows and two columns with a NULL cell.
C24_TwoByTwoWithNull ==
  /\ render.fn \in {"executeSelectQuery", "execQuery"}
  /\ Len(render.rows) = 2
  /\ Len(render.columns) = 2
  /\ render.rows[2][1] = NULL

\* C25: the four places that turn a scanned value into a cell give the same
\* text for every kind of value, and nil gives NULL.
C25_OneNormalization ==
  render.fn = "cell" =>
    /\ render.display = render.export
    /\ render.export = render.query
    /\ render.query = render.selection
    /\ render.value.kind = "nil" => render.display = NULL

\* ------------------------------------------------------------------ renderers
\* The functions that turn the columns and the rows of a result into text.
\* A text is the sequence of its characters, "\n" the line break.

\* Longest cell and longest column name handed to a renderer.
MaxCell == 2

CellChars == {"a", ",", "\"", "\n"}

\* The cells: every text of at most MaxCell characters.
Cells == UNION {[1 .. n -> CellChars] : n \in 0 .. MaxCell}

\* The column names.
Names == {<<"a">>, <<"b">>, <<"a", ",">>, <<"\"">>}

\* The results handed to a renderer: one or two columns, up to MaxRows rows;
\* in a result of two columns only the first cell of a row varies freely.
Tables ==
  UNION {[columns : [1 .. 1 -> Names], rows : [1 .. r -> [1 .. 1 -> Cells]]]
         : r \in 0 .. MaxRows}
  \cup UNION {[columns : [1 .. 2 -> Names],
               rows : [1 .. r -> {<<c, d>> : c \in Cells, d \in {<<"a">>, <<"\"">>}}]]
              : r \in 0 .. 1}

\* strings.Contains(s, ch) for a single character
Contains(s, ch) == \E i \in 1 .. Len(s) : s[i] = ch

\* strings.ReplaceAll(cell, "\"", "\"\"")
RECURSIVE DoubleQuotes(_)
DoubleQuotes(s) ==
  IF s = << >> THEN << >>
  ELSE (IF Head(s) = "\"" THEN <<"\"", "\"">> ELSE <<Head(s)>>) \o DoubleQuotes(Tail(s))

\* The texts of a sequence one after the other.
RECURSIVE Concat(_)
Concat(texts) == IF texts = << >> THEN << >> ELSE Head(texts) \o Concat(Tail(texts))

\* The fields of a line with sep before every field but the first.
Joined(fields, sep) ==
  Concat([i \in 1 .. Len(fields) |-> IF i > 1 THEN sep \o fields[i] ELSE fields[i]])

\* displayCSV and exportResults: a cell with a comma or a quote is wrapped in
\* quotes, its quotes doubled.
EscapeCSV(cell) ==
  IF Contains(cell, ",") \/ Contains(cell, "\"")
  THEN <<"\"">> \o DoubleQuotes(cell) \o <<"\"">>
  ELSE cell

\* fmt.Sprintf("\"%s\"", cell) of copyAsCSV and exportToFile
Quoted(cell) == <<"\"">> \o cell \o <<"\"">>

\* A line: the fields with "," between them, and the line break.
CsvLine(fields) == Joined(fields, <<",">>) \o <<"\n">>

\* The cells of a row, escaped, and the cells of a row, in quotes.
EscapedRow(row) == [i \in 1 .. Len(row) |-> EscapeCSV(row[i])]
QuotedRow(row) == [i \in 1 .. Len(row) |-> Quoted(row[i])]

\* displayCSV: the header as it is, then the rows with their cells escaped.
displayCSV(t) ==
  [fn |-> "displayCSV", columns |-> t.columns, rows |-> t.rows, out |-> TRUE,
   text |-> CsvLine(t.columns)
            \o Concat([r \in 1 .. Len(t.rows) |-> CsvLine(EscapedRow(t.rows[r]))])]

\* exportResults: the same text, written to the file.
exportResults(t) ==
  [fn |-> "exportResults", columns |-> t.columns, rows |-> t.rows, out |-> TRUE,
   text |-> CsvLine(t.columns)
            \o Concat([r \in 1 .. Len(t.rows) |-> CsvLine(EscapedRow(t.rows[r]))])]

\* copyAsCSV: nothing without rows; every header and every cell in quotes.
copyAsCSV(t) ==
  [fn |-> "copyAsCSV", columns |-> t.columns, rows |-> t.rows, out |-> t.rows # << >>,
   text |-> IF t.rows = << >> THEN << >>
            ELSE CsvLine(QuotedRow(t.columns))
                 \o Concat([r \in 1 .. Len(t.rows) |-> CsvLine(QuotedRow(t.rows[r]))])]

\* exportToFile: the same text, written to the file.
exportToFileCSV(t) ==
  [fn |-> "exportToFile", columns |-> t.columns, rows |-> t.rows, out |-> t.rows # << >>,
   text |-> IF t.rows = << >> THEN << >>
            ELSE CsvLine(QuotedRow(t.columns))
                 \o Concat([r \in 1 .. Len(t.rows) |-> CsvLine(QuotedRow(t.rows[r]))])]

CsvRenderers == {"displayCSV", "exportResults", "copyAsCSV", "exportToFile"}

DisplayCSVCall ==
  /\ render = NoCall
  /\ \E t \in Tables : render' = displayCSV(t)
  /\ UNCHANGED <<tuiVars, scroll, shell, race>>

ExportResultsCall ==
  /\ render = NoCall
  /\ \E t \in Tables : render' = exportResults(t)
  /\ UNCHANGED <<tuiVars, scroll, shell, race>>

CopyAsCSVCall ==
  /\ render = NoCall
  /\ \E t \in Tables : render' = copyAsCSV(t)
  /\ UNCHANGED <<tuiVars, scroll, shell, race>>

ExportToFileCall ==
  /\ render = NoCall
  /\ \E t \in Tables : render' = exportToFileCSV(t)
  /\ UNCHANGED <<tuiVars, scroll, shell, race>>

\* The field the rule of quoting gives: in quotes with its quotes doubled
\* when it holds a comma or a quote, as it is otherwise.
QuotedIffNeeded(cell) ==
  IF Contains(cell, ",") \/ Contains(cell, "\"")
  THEN <<"\"">> \o DoubleQuotes(cell) \o <<"\"">>
  ELSE cell

\* C26: in the text of every CSV renderer each field, the header's fields
\* included, is in quotes with its quotes doubled exactly when it holds a
\* comma or a quote, and as it is otherwise.
C26_QuotedIffCommaOrQuote ==
  (render.fn \in CsvRenderers /\ render.out) =>
    render.text =
      Concat([r \in 1 .. Len(render.rows) + 1 |->
                LET record == (<<render.columns>> \o render.rows)[r]
                IN CsvLine([i \in 1 .. Len(record) |-> QuotedIffNeeded(record[i])])])

\* A CSV reader after RFC 4180: fields are separated by commas and records
\* by line breaks; a field that starts with a quote runs to its closing
\* quote, two quotes inside it stand for one; a quote inside a field that did
\* not start with one, or a character other than a comma or a line break
\* after the closing quote, is an error. An empty line is read as a record of
\* one empty field.
RECURSIVE ReadCSV(_, _, _, _, _, _)
ReadCSV(text, i, records, record, field, mode) ==
  IF i > Len(text)
  THEN IF mode = "quoted" THEN [ok |-> FALSE, records |-> << >>]
       ELSE IF mode = "start" /\ record = << >> THEN [ok |-> TRUE, records |-> records]
       ELSE [ok |-> TRUE, records |-> Append(records, Append(record, field))]
  ELSE LET ch == text[i]
       IN CASE mode = "quoted" /\ ch = "\"" -> ReadCSV(text, i + 1, records, record, field, "closed")
            [] mode = "quoted" /\ ch # "\"" ->
                 ReadCSV(text, i + 1, records, record, Append(field, ch), "quoted")
            [] mode = "closed" /\ ch = "\"" ->
                 ReadCSV(text, i + 1, records, record, Append(field, ch), "quoted")
            [] mode # "quoted" /\ ch = "," ->
                 ReadCSV(text, i + 1, records, Append(record, field), << >>, "field")
            [] mode # "quoted" /\ ch = "\n" ->
                 ReadCSV(text, i + 1, Append(records, Append(record, field)), << >>, << >>,
                         "start")
            [] mode \in {"start", "field"} /\ field = << >> /\ ch = "\"" ->
                 ReadCSV(text, i + 1, records, record, field, "quoted")
            [] mode \in {"start", "field", "plain"} /\ ch \notin {"\"", ",", "\n"} ->
                 ReadCSV(text, i + 1, records, record, Append(field, ch), "plain")
            [] OTHER -> [ok |-> FALSE, records |-> << >>]

ParseCSV(text) == ReadCSV(text, 1, << >>, << >>, << >>, "start")

\* C27: the text of a CSV renderer, parsed by a CSV reader, gives back the
\* header and the cells.
C27_CsvRoundTrip ==
  (render.fn \in CsvRenderers /\ render.out) =>
    ParseCSV(render.text) = [ok |-> TRUE, records |-> <<render.columns>> \o render.rows]

\* fmt.Sprintf("\"%s\": \"%s\"", columns[j], cell)
JsonPair(col, cell) == <<"\"">> \o col \o <<"\"", ":", " ", "\"">> \o cell \o <<"\"">>

\* displayJSON: "[", the rows as objects on a line each with "," between
\* them, "]".
displayJSON(t) ==
  [fn |-> "displayJSON", columns |-> t.columns, rows |-> t.rows, out |-> TRUE,
   text |-> <<"[", "\n">>
            \o Concat([r \in 1 .. Len(t.rows) |->
                 (IF r > 1 THEN <<",", "\n">> ELSE << >>)
                 \o <<" ", " ", "{">>
                 \o Joined([j \in 1 .. Len(t.rows[r]) |-> JsonPair(t.columns[j], t.rows[r][j])],
                           <<",", " ">>)
                 \o <<"}">>])
            \o (IF Len(t.rows) > 0 THEN <<"\n">> ELSE << >>)
            \o <<"]", "\n">>]

\* copyAsJSON: nothing without rows; an object of one line for each cell.
copyAsJSON(t) ==
  [fn |-> "copyAsJSON", columns |-> t.columns, rows |-> t.rows, out |-> t.rows # << >>,
   text |-> IF t.rows = << >> THEN << >>
            ELSE <<"[", "\n">>
                 \o Concat([r \in 1 .. Len(t.rows) |->
                      <<" ", " ", "{", "\n">>
                      \o Concat([j \in 1 .. Len(t.rows[r]) |->
                           <<" ", " ", " ", " ">> \o JsonPair(t.columns[j], t.rows[r][j])
                           \o (IF j < Len(t.rows[r]) THEN <<",">> ELSE << >>) \o <<"\n">>])
                      \o <<" ", " ", "}">>
                      \o (IF r < Len(t.rows) THEN <<",">> ELSE << >>) \o <<"\n">>])
                 \o <<"]", "\n">>]

JsonRenderers == {"displayJSON", "copyAsJSON"}

DisplayJSONCall ==
  /\ render = NoCall
  /\ \E t \in Tables : render' = displayJSON(t)
  /\ UNCHANGED <<tuiVars, scroll, shell, race>>

CopyAsJSONCall ==
  /\ render = NoCall
  /\ \E t \in Tables : render' = copyAsJSON(t)
  /\ UNCHANGED <<tuiVars, scroll, shell, race>>

\* A JSON reader for arrays of objects whose values are strings (RFC 8259):
\* blanks and line breaks between the tokens; a string runs to the next
\* quote that no backslash precedes, and holds no raw control character.
\* It gives the objects in order, each the sequence of its <<name, value>>
\* pairs.
NoJson == [ok |-> FALSE, objects |-> << >>]

Unescaped(ch) == IF ch = "n" THEN "\n" ELSE ch

RECURSIVE ReadJSON(_, _, _, _, _, _, _)
ReadJSON(text, i, objects, object, name, str, mode) ==
  IF i > Len(text)
  THEN IF mode = "end" THEN [ok |-> TRUE, objects |-> objects] ELSE NoJson
  ELSE LET ch == text[i]
           Go(md) == ReadJSON(text, i + 1, objects, object, name, str, md)
       IN CASE mode \in {"name", "value"} /\ ch = "\\" ->
                 Go(IF mode = "name" THEN "name escape" ELSE "value escape")
            [] mode \in {"name escape", "value escape"} /\ ch \in {"\"", "\\", "n"} ->
                 ReadJSON(text, i + 1, objects, object, name, Append(str, Unescaped(ch)),
                          IF mode = "name escape" THEN "name" ELSE "value")
            [] mode \in {"name", "value"} /\ ch \notin {"\"", "\\", "\n"} ->
                 ReadJSON(text, i + 1, objects, object, name, Append(str, ch), mode)
            [] mode = "name" /\ ch = "\"" ->
                 ReadJSON(text, i + 1, objects, object, str, << >>, "colon")
            [] mode = "value" /\ ch = "\"" ->
                 ReadJSON(text, i + 1, objects, Append(object, <<name, str>>), << >>, << >>,
                          "after pair")
            [] mode \notin {"name", "value", "name escape", "value escape"}
               /\ ch \in {" ", "\n"} -> Go(mode)
            [] mode = "begin" /\ ch = "[" -> Go("array")
            [] mode \in {"array", "next object"} /\ ch = "{" -> Go("object")
            [] mode \in {"array", "after object"} /\ ch = "]" -> Go("end")
            [] mode \in {"object", "next pair"} /\ ch = "\"" -> Go("name")
            [] mode = "colon" /\ ch = ":" -> Go("colon seen")
            [] mode = "colon seen" /\ ch = "\"" -> Go("value")
            [] mode = "after pair" /\ ch = "," -> Go("next pair")
            [] mode \in {"object", "after pair"} /\ ch = "}" ->
                 ReadJSON(text, i + 1, Append(objects, object), << >>, << >>, << >>,
                          "after object")
            [] mode = "after object" /\ ch = "," -> Go("next object")
            [] OTHER -> NoJson

ParseJSON(text) == ReadJSON(text, 1, << >>, << >>, << >>, << >>, "begin")

\* C28: the text of a JSON renderer is an array of one object for each row,
\* in the order of the rows, each object with one entry for each column: the
\* column's name and the cell's text as a string.
C28_OneObjectPerRow ==
  (render.fn \in JsonRenderers /\ render.out) =>
    ParseJSON(render.text) =
      [ok |-> TRUE,
       objects |-> [r \in 1 .. Len(render.rows) |->
                      [j \in 1 .. Len(render.columns) |->
                         <<render.columns[j], render.rows[r][j]>>]]]

\* C29: the text of a JSON renderer is valid JSON whatever the cells and the
\* column names hold.
C29_ValidJson ==
  (render.fn \in JsonRenderers /\ render.out) => ParseJSON(render.text).ok

RenderNext ==
  \/ DisplayCSVCall
  \/ ExportResultsCall
  \/ CopyAsCSVCall
  \/ ExportToFileCall
  \/ DisplayJSONCall
  \/ CopyAsJSONCall

RenderSpec == Init /\ [][RenderNext]_vars

\* ------------------------------------------------------------------ displayTable
\* The table of the command line client. Lengths are len() of Go, in bytes;
\* the cells here are ASCII. "+", "-" and "|" stand for the box-drawing
\* characters of the borders, each printed as one character.

\* Longest cell and longest column name handed to displayTable.
MaxWide == 51

\* The widest a column gets, the padding added to a column, the length over
\* which a header or a cell is cut, and the length it is cut to.
MaxColumnWidth == 50
Padding == 2
CutOver == 48
CutTo == 45

Lengths == {0, 1, 3} \cup 44 .. MaxWide

\* A text of n characters.
Text(n) == [i \in 1 .. n |-> "a"]

\* The results handed to displayTable: one column and up to MaxRows rows, or
\* two columns and one row.
WideTables ==
  UNION {[columns : {<<Text(h)>> : h \in Lengths},
          rows : [1 .. r -> {<<Text(n)>> : n \in Lengths}]] : r \in 0 .. MaxRows}
  \cup [columns : {<<Text(h), Text(g)>> : h, g \in {1, MaxWide}},
        rows : {<<<<Text(n), Text(k)>>>> : n, k \in Lengths}]

\* for _, row := range rows: the width so far, raised to the longest cell of
\* column i.
RECURSIVE WidestCell(_, _, _)
WidestCell(rows, i, width) ==
  IF rows = << >> THEN width
  ELSE WidestCell(Tail(rows), i,
                  IF Len(Head(rows)[i]) > width THEN Len(Head(rows)[i]) ELSE width)

\* colWidths: len(col), raised by the cells, plus the padding, at most the
\* widest.
colWidths(t) ==
  [i \in 1 .. Len(t.columns) |->
     LET w == WidestCell(t.rows, i, Len(t.columns[i])) + Padding
     IN IF w > MaxColumnWidth THEN MaxColumnWidth ELSE w]

\* A header or a cell that is printed whole whatever its length.
Uncut(cell) == cell

\* if len(cell) > 48 { cell = cell[:45] + "..." }
Cut(cell) ==
  IF Len(cell) > CutOver THEN SubSeq(cell, 1, CutTo) \o <<".", ".", ".">> ELSE cell

\* %-*s: the text, filled with blanks on the right up to the width.
PadRight(s, width) == s \o [i \in 1 .. width - Len(s) |-> " "]

\* A border: left, the columns as strings.Repeat of the line with mid between
\* them, right.
Border(widths, left, mid, right) ==
  <<left>> \o Joined([i \in 1 .. Len(widths) |-> [k \in 1 .. widths[i] |-> "-"]], <<mid>>)
  \o <<right>>

\* The header or a row: fmt.Printf(" %-*s |", colWidths[i]-2, cell) for
\* every cell.
TableLine(widths, fields) ==
  <<"|">> \o Concat([i \in 1 .. Len(fields) |->
                       <<" ">> \o PadRight(Cut(fields[i]), widths[i] - 2) \o <<" ", "|">>])

\* displayTable: a notice without rows; else the top border, the header, the
\* separator, the rows and the bottom border.
displayTable(t) ==
  LET widths == colWidths(t)
  IN [fn |-> "displayTable", columns |-> t.columns, rows |-> t.rows, out |-> t.rows # << >>,
      colWidths |-> widths,
      lines |-> IF t.rows = << >> THEN << >>
                ELSE <<Border(widths, "+", "+", "+"), TableLine(widths, t.columns),
                       Border(widths, "+", "+", "+")>>
                     \o [r \in 1 .. Len(t.rows) |-> TableLine(widths, t.rows[r])]
                     \o <<Border(widths, "+", "+", "+")>>]

DisplayTableCall ==
  /\ render = NoCall
  /\ \E t \in WideTables : render' = displayTable(t)
  /\ UNCHANGED <<tuiVars, scroll, shell, race>>

TableSpec == Init /\ [][DisplayTableCall]_vars

\* The longest text of column i, header included.
Longest(i) ==
  CHOOSE n \in {Len(render.columns[i])} \cup {Len(render.rows[r][i]) : r \in 1 .. Len(render.rows)} :
    /\ n >= Len(render.columns[i])
    /\ \A r \in 1 .. Len(render.rows) : n >= Len(render.rows[r][i])

\* C30: every column of the table is min(50, longest of header and cells + 2)
\* wide, and the header and the rows are printed as wide as the borders, so
\* all lines of the table have one width: no header or cell, cut to 45
\* characters and "..." when longer than 48, is wider than its column less
\* the padding.
C30_ColumnWidthsAndEqualLines ==
  (render.fn = "displayTable" /\ render.out) =>
    /\ \A i \in 1 .. Len(render.columns) :
         render.colWidths[i] = Min(50, Longest(i) + 2)
    /\ \A l \in 1 .. Len(render.lines) :
         /\ Len(render.lines[l]) = Len(render.lines[1])
         /\ Len(render.lines[l]) =
              1 + Len(Concat([i \in 1 .. Len(render.columns) |-> Text(render.colWidths[i] + 1)]))

\* A table with a cell longer than 48 characters has been printed.
C30_LongCellPrinted ==
  /\ render.fn = "displayTable"
  /\ render.out
  /\ \E r \in 1 .. Len(render.rows) : Len(render.rows[r][1]) > 48
  /\ Len(render.lines) = Len(render.rows) + 4

\* ------------------------------------------------------------------ claims, the shell and the session
\* C31: at every prompt of the interactive shell, the continuation prompt of
\* a query typed in part included, the line clear (or \c) leaves the query
\* buffer empty.
C31_ClearEmptiesBuffer ==
  shell.pc = "prompt" =>
    \A word \in ClearWords : ShellStep(shell, word).queryBuilder = << >>

\* The buffer after the line: the line behind the buffer, a blank between
\* them; an empty line adds nothing.
Accumulated(buffer, line) ==
  IF line = << >> THEN buffer
  ELSE IF buffer = << >> THEN line
  ELSE buffer \o <<" ">> \o line

\* What the shell does with a line that is not a special command: without a
\* semicolon at its end the line is accumulated and nothing is executed; with
\* one, the accumulated text less the semicolon, trimmed, is executed once and
\* appended to the history if it is not empty, and the buffer is empty.
LineAccumulatedOrExecuted(sh, line, after) ==
  LET text == Accumulated(sh.queryBuilder, line)
      query == TrimSpace(SubSeq(text, 1, Len(text) - 1))
  IN IF line # << >> /\ line[Len(line)] = ";"
     THEN /\ after.queryBuilder = << >>
          /\ after.executed = IF query = << >> THEN << >> ELSE <<query>>
          /\ after.history = IF query = << >> THEN sh.history ELSE Append(sh.history, query)
     ELSE /\ after.queryBuilder = text
          /\ after.executed = << >>
          /\ after.history = sh.history

\* C32: lines are accumulated with single blanks until one ends with a
\* semicolon, and then the accumulated text, less the semicolon and trimmed,
\* is executed once, recorded in the history if it is not empty, and the
\* buffer is emptied. A line without a semicolon executes no query unless it
\* is, at the empty buffer, one of the special commands status, show
\* databases or show tables, which run their own queries and record nothing.
C32_AccumulateUntilSemicolon ==
  shell.pc = "prompt" =>
    \A typed \in ShellLines :
      LET line == TrimSpace(typed)
          after == ShellStep(shell, typed)
      IN IF shell.queryBuilder = << >> /\ IsCommand(line)
         THEN /\ after.history = shell.history
              /\ after.queryBuilder = << >>
              /\ after.executed # << >> =>
                   ToLower(line) \in StatusWords \cup DatabasesWords \cup TablesWords
         ELSE LineAccumulatedOrExecuted(shell, line, after)

\* The two lines "a" and "a;" have been executed as the one query "a a".
C32_TwoLinesExecuted ==
  /\ shell.executed = <<<<"a", " ", "a">>>>
  /\ shell.queryBuilder = << >>
  /\ shell.history # << >>

\* C32 as stated: no query is executed on a line that does not end with a
\* semicolon.
C32_NoQueryWithoutSemicolon ==
  shell.pc = "prompt" =>
    \A typed \in ShellLines :
      ~HasSuffixSemi(TrimSpace(typed)) => ShellStep(shell, typed).executed = << >>

\* C33: whenever the copy menu is the view shown, the cached last result has
\* at least one row, also when a query submitted before the menu was opened
\* completes while the menu is open.
C33_CopyMenuHasRows == m.showCopyMenu => Len(m.lastQueryResult) > 0

\* The commands in flight that end in a queryResultMsg.
ResultsAwaited ==
  {c \in BagToSet(inflight) : c.kind \in {"execQuery", "showTables", "handleTableSelection"}}

\* C34: loading is true exactly while a submitted query has not delivered
\* its queryResultMsg.
C34_LoadingIffAwaited == ~quit => (m.loading <=> ResultsAwaited # {})

\* ------------------------------------------------------------------ queries in submission order
\* The session with the queries of the query input numbered in the order in
\* which Enter submits them. The command of submission n carries n, and the
\* database answers it with the one row <<n>>, so that the cached result
\* tells which submission it is the result of.

\* Most queries submitted at the query input.
MaxSubmitted == 2

\* A key press that starts no query.
RaceKey ==
  /\ \E k \in Keys : \E sel \in IF k = "enter" THEN SelectedItems(m) ELSE {NoItem} :
       KeyPress(k, sel)
  /\ cmd'.kind \notin AsyncKinds \ {"connect"}

\* Enter at the query input submits a query: Update as on every key press,
\* the command started is numbered.
RaceSubmit ==
  /\ ~quit
  /\ race.submitted < MaxSubmitted
  /\ BagCardinality(inflight) < MaxInflight
  /\ LET r == UpdateKeyMsg(m, "enter", NoItem, TRUE)
     IN /\ r.cmd.kind = "execQuery"
        /\ Len(r.m.queryHistory) <= MaxHist
        /\ m' = r.m
        /\ cmd' = r.cmd
        /\ inflight' = inflight (+) SetToBag({[kind |-> "execQuery", db |-> r.cmd.db,
                                               query |-> r.cmd.query,
                                               id |-> race.submitted + 1]})
  /\ race' = [race EXCEPT !.submitted = race.submitted + 1]
  /\ UNCHANGED <<quit, opened, scroll, shell, render>>

\* The answer to submission n: its row, or an error.
RaceResult(c, ok) ==
  IF ok THEN [rows |-> <<<<c.id>>>>, cols |-> <<"c">>, err |-> FALSE]
  ELSE [rows |-> << >>, cols |-> << >>, err |-> TRUE]

\* The command of a submission finishes and Update runs on its
\* queryResultMsg.
RaceDone(c, ok) ==
  /\ ~quit
  /\ BagIn(c, inflight)
  /\ c.kind = "execQuery"
  /\ LET r == InputUpdate(UpdateQueryResultMsg(m, RaceResult(c, ok)), "queryResultMsg")
     IN m' = r.m /\ cmd' = r.cmd
  /\ inflight' = inflight (-) SetToBag({c})
  /\ race' = IF ok /\ c.id > race.newest THEN [race EXCEPT !.newest = c.id] ELSE race
  /\ UNCHANGED <<quit, opened, scroll, shell, render>>

RaceDeliver == \E c \in BagToSet(inflight), ok \in BOOLEAN : RaceDone(c, ok)

RaceNext ==
  \/ RaceKey
  \/ RaceSubmit
  \/ RaceDeliver
  \/ DeliverConnectionFormMsg

RaceSpec == Init /\ [][RaceNext]_vars

\* C35: once no query is in flight, the cached last result, its columns and
\* the table displayed are those of the most recently submitted query that
\* succeeded, whatever the order in which the results were delivered.
C35_CacheIsNewestSubmitted ==
  (inflight = EmptyBag /\ race.newest > 0) =>
    /\ m.lastQueryResult = <<<<race.newest>>>>
    /\ m.lastQueryCols = <<"c">>
    /\ m.table.rows = <<<<race.newest>>>>

\* C36: a queryResultMsg with an error leaves the cached result, its columns,
\* the statistics, the table information and the table displayed as they
\* are and attaches the error; and an attached error is only taken off by a
\* queryResultMsg of a query that succeeded.
C36_FailedQueryKeepsCache ==
  /\ [][\A c \in BagToSet(inflight) : \A msg \in QueryResults(c) :
          (msg.err /\ QueryResultDone(c, msg))
          => (/\ m'.lastQueryResult = m.lastQueryResult
              /\ m'.lastQueryCols = m.lastQueryCols
              /\ m'.queryStats = m.queryStats
              /\ m'.tableInfo = m.tableInfo
              /\ m'.table = m.table
              /\ m'.err)]_vars
  /\ [][(m.err /\ ~m'.err)
        => \E c \in BagToSet(inflight) : \E msg \in QueryResults(c) :
             ~msg.err /\ QueryResultDone(c, msg)]_vars

\* A query has failed while the result of an earlier query, of one row, is
\* cached with its statistics.
C36_FailedOverCachedRows ==
  /\ m.err /\ m.status = <<"query failed", 0>>
  /\ Len(m.lastQueryResult) > 0
  /\ m.queryStats.rowCount = Len(m.lastQueryResult)
  /\ m.tableInfo.hasData
  /\ m.table.rows = m.lastQueryResult

\* C37: whenever the connection form is not shown the model holds a handle,
\* and every query command in flight was started on a handle.
C37_HandleWhenFormGone ==
  /\ ~m.showConnectionForm => m.db # 0
  /\ \A c \in BagToSet(inflight) : c.kind # "connect" => c.db # 0

\* A query submitted at the query input is in flight on the handle of the
\* session.
C37_QueryOnHandle ==
  /\ ~m.showConnectionForm
  /\ \E c \in BagToSet(inflight) : c.kind = "execQuery" /\ c.db = m.db /\ c.db # 0

\* ------------------------------------------------------------------ the history of the query input
\* The session with queries of up to MaxRecall characters typed, submitted
\* and recalled at the query input, and a history of up to MaxRecall entries.

\* Longest text typed at the query input and longest history.
MaxRecall == 2

RecallKeys == {"enter", "up", "down", "backspace"} \cup Runes

\* The bound on what the user does: the connection form is filled front to
\* back, the main menu is left for the query input with Esc, and at the query
\* input the keys of RecallKeys are pressed.
RecallOffered(k, sel) ==
  /\ IF m.showConnectionForm THEN FormKeyOffered(m.connectionForm, k)
     ELSE IF m.showMainMenu THEN k = "esc"
     ELSE /\ k \in RecallKeys
          /\ k \in Runes => Len(m.input) < MaxRecall
  /\ Len(UpdateKeyMsg(m, k, sel, TRUE).m.queryHistory) <= MaxRecall

RecallKey ==
  \E k \in Keys : \E sel \in IF k = "enter" THEN SelectedItems(m) ELSE {NoItem} :
    KeyPressOffered(k, sel, RecallOffered(k, sel))

RecallNext ==
  \/ RecallKey
  \/ DeliverConnectionFormMsg
  \/ DeliverQueryResultMsg

RecallSpec == Init /\ [][RecallNext]_vars

\* C38: with a history that is not empty currentQuery is an index into it;
\* at the query input Up from the first entry goes to the last and Down from
\* the last goes to the first, each putting the entry it reaches into the
\* input; with an empty history Up and Down change neither currentQuery nor
\* the input.
C38_RecallStaysInHistory ==
  LET n == Len(m.queryHistory)
      up == UpdateKeyMsg(m, "up", NoItem, TRUE).m
      down == UpdateKeyMsg(m, "down", NoItem, TRUE).m
  IN /\ n > 0 => (0 <= m.currentQuery /\ m.currentQuery < n)
     /\ (~quit /\ KeyView(m) = "FreeQuery") =>
          IF n = 0
          THEN /\ up.currentQuery = m.currentQuery /\ up.input = m.input
               /\ down.currentQuery = m.currentQuery /\ down.input = m.input
          ELSE /\ up.currentQuery = (IF m.currentQuery = 0 THEN n - 1 ELSE m.currentQuery - 1)
               /\ down.currentQuery = (IF m.currentQuery = n - 1 THEN 0 ELSE m.currentQuery + 1)
               /\ up.input = m.queryHistory[up.currentQuery + 1]
               /\ down.input = m.queryHistory[down.currentQuery + 1]

\* With two queries in the history the second has been recalled into the
\* input.
C38_SecondEntryRecalled ==
  /\ View(m) = "FreeQuery"
  /\ Len(m.queryHistory) = 2
  /\ m.currentQuery = 1
  /\ m.input = m.queryHistory[2]
  /\ m.queryHistory[1] # m.queryHistory[2]

\* C39: after a copy or export option is chosen in CopyExportMenu, the model
\* Update returns carries the status the chosen action wrote (ready to copy,
\* exported, or the failure message).
C39_CopyStatusVisible ==
  (~quit /\ KeyView(m) = "CopyExportMenu") =>
    \A sel \in CopyItems : \A created \in BOOLEAN :
      UpdateKeyMsg(m, "enter", sel, created).m.status
        = handleCopyAction(m, sel.title, created).status

\* C40: Enter on the connection form while a field is invalid starts no
\* connection attempt, leaves connecting as it was, and marks the form as
\* submitted, the flag on which View shows the validation indicators and
\* the error messages of the fields.
C40_InvalidEnterMarksSubmitted ==
  (m.showConnectionForm /\ ~quit /\ ~FormValid(m.connectionForm)) =>
    LET cf == m.connectionForm
        r == ConnectionFormUpdate(cf, "enter")
    IN /\ r.cmd.kind # "connect"
       /\ r.cf.connecting = cf.connecting
       /\ r.cf.submitted

====
